---- MODULE Spec2Model ----
(***************************************************************************)
(* Financial projection engine of the business value assessment tool       *)
(* (src/bva.py): time-phasing functions, FTE cost allocation, baseline     *)
(* savings, yearly cash-flow projection, NPV and the payback search.       *)
(*                                                                         *)
(* Python floats are modelled as exact rationals [n, d] in lowest terms    *)
(* with d > 0; a division whose denominator is zero yields                 *)
(* ZeroDivisionError (d = 0), which every later operation propagates.      *)
(***************************************************************************)
EXTENDS Integers, Sequences, FiniteSets, TLC

\* ------------------------------------------------------------------------
\* Bounds of the explored input space
\* ------------------------------------------------------------------------
MaxMonth == 40
MaxDelay == 26
MaxRamp == 13
MaxBilling == 25
MaxVolume == 2
MaxFtes == 2
MaxMinutes == 1
MaxSalary == 1
MaxImplDelay == 2
MaxRampUp == 2
MaxYears == 3
MaxPasses == 3
MaxTrials == 2
MaxRuns == 2
MaxOtherDraws == 2

\* ------------------------------------------------------------------------
\* Exact arithmetic standing for Python's numeric operators
\* ------------------------------------------------------------------------
Abs(x) == IF x < 0 THEN -x ELSE x

RECURSIVE GCD(_, _)
GCD(a, b) == IF b = 0 THEN a ELSE GCD(b, a % b)

ZeroDivisionError == [n |-> 0, d |-> 0]

IsError(a) == a.d = 0

Norm(num, den) ==
    LET g == GCD(Abs(num), den)
    IN  [n |-> num \div g, d |-> den \div g]

R(i) == [n |-> i, d |-> 1]

Frac(num, den) ==
    IF den = 0 THEN ZeroDivisionError
    ELSE IF den < 0 THEN Norm(-num, -den)
    ELSE Norm(num, den)

RAdd(a, b) ==
    IF IsError(a) \/ IsError(b) THEN ZeroDivisionError
    ELSE LET g == GCD(a.d, b.d)
         IN  Norm(a.n * (b.d \div g) + b.n * (a.d \div g), (a.d \div g) * b.d)

RNeg(a) == IF IsError(a) THEN ZeroDivisionError ELSE [n |-> -a.n, d |-> a.d]

RSub(a, b) == RAdd(a, RNeg(b))

RMul(a, b) ==
    IF IsError(a) \/ IsError(b) THEN ZeroDivisionError
    ELSE LET x == Norm(a.n, b.d)
             y == Norm(b.n, a.d)
         IN  [n |-> x.n * y.n, d |-> x.d * y.d]

RDiv(a, b) ==
    IF IsError(a) \/ IsError(b) \/ b.n = 0 THEN ZeroDivisionError
    ELSE IF b.n < 0 THEN RMul(a, [n |-> -b.d, d |-> -b.n])
    ELSE RMul(a, [n |-> b.d, d |-> b.n])

RLe(a, b) == a.n * b.d <= b.n * a.d

RLt(a, b) == a.n * b.d < b.n * a.d

Zero == R(0)

One == R(1)

\* ------------------------------------------------------------------------
\* 4.1 Time-phasing functions
\* ------------------------------------------------------------------------
\* Slip: the implementation phase tested with < instead of <=.
calculate_benefit_realization_factor_offbyone(month, implementation_delay_months, ramp_up_months) ==
    IF month < implementation_delay_months THEN Zero
    ELSE IF month <= implementation_delay_months + ramp_up_months
         THEN RDiv(R(month - implementation_delay_months), R(ramp_up_months))
         ELSE One

\* Slip: the last ramp-up month falls through to no benefits.
calculate_benefit_realization_factor_dip(month, implementation_delay_months, ramp_up_months) ==
    IF month <= implementation_delay_months THEN Zero
    ELSE IF month < implementation_delay_months + ramp_up_months
         THEN RDiv(R(month - implementation_delay_months), R(ramp_up_months))
         ELSE IF month = implementation_delay_months + ramp_up_months /\ ramp_up_months > 0
              THEN Zero
              ELSE One

calculate_benefit_realization_factor(month, implementation_delay_months, ramp_up_months) ==
    IF month <= implementation_delay_months THEN Zero
    ELSE IF month <= implementation_delay_months + ramp_up_months
         THEN RDiv(R(month - implementation_delay_months), R(ramp_up_months))
         ELSE One

\* Slip: billing starts one month late.
calculate_platform_cost_factor_strict(month, billing_start_month) ==
    IF month > billing_start_month THEN One ELSE Zero

calculate_platform_cost_factor(month, billing_start_month) ==
    IF month >= billing_start_month THEN One ELSE Zero

\* ------------------------------------------------------------------------
\* 4.2 Cost-allocation engine
\* ------------------------------------------------------------------------
Pct(p) == Frac(p, 100)

NoData == [cost_per_unit |-> Zero, total_cost |-> Zero, utilization |-> Zero,
           working_hours |-> Zero]

\* Slip: the guard forgets the volume, so an empty workload is still billed.
calculate_alert_costs_noguard(alert_volume, alert_ftes, avg_alert_triage_time, avg_salary_per_year, hours_per_day, days_per_week, weeks_per_year, holiday_sick_days, alert_fte_time_pct) ==
    IF alert_ftes = 0 THEN NoData
    ELSE
    LET total_alert_time_minutes_per_year == alert_volume * avg_alert_triage_time
        total_alert_time_hours_per_year == Frac(total_alert_time_minutes_per_year, 60)
        total_working_days == (weeks_per_year * days_per_week) - holiday_sick_days
        working_hours_per_fte_per_year == RMul(R(total_working_days), hours_per_day)
        total_available_fte_hours == RMul(R(alert_ftes), working_hours_per_fte_per_year)
        total_allocated_fte_hours == RMul(total_available_fte_hours, Pct(alert_fte_time_pct))
        utilization_of_allocated_time ==
            IF RLt(Zero, total_allocated_fte_hours)
            THEN RDiv(total_alert_time_hours_per_year, total_allocated_fte_hours)
            ELSE Zero
        total_fte_cost == alert_ftes * avg_salary_per_year
        total_alert_handling_cost == RMul(R(total_fte_cost), Pct(alert_fte_time_pct))
        cost_per_alert ==
            IF alert_volume > 0 THEN RDiv(total_alert_handling_cost, R(alert_volume)) ELSE Zero
    IN  [cost_per_unit |-> cost_per_alert, total_cost |-> total_alert_handling_cost,
         utilization |-> utilization_of_allocated_time,
         working_hours |-> working_hours_per_fte_per_year]

\* Slip: the utilization guard tests != 0 instead of > 0.
calculate_alert_costs_nonzero(alert_volume, alert_ftes, avg_alert_triage_time, avg_salary_per_year, hours_per_day, days_per_week, weeks_per_year, holiday_sick_days, alert_fte_time_pct) ==
    IF alert_volume = 0 \/ alert_ftes = 0 THEN NoData
    ELSE
    LET total_alert_time_minutes_per_year == alert_volume * avg_alert_triage_time
        total_alert_time_hours_per_year == Frac(total_alert_time_minutes_per_year, 60)
        total_working_days == (weeks_per_year * days_per_week) - holiday_sick_days
        working_hours_per_fte_per_year == RMul(R(total_working_days), hours_per_day)
        total_available_fte_hours == RMul(R(alert_ftes), working_hours_per_fte_per_year)
        total_allocated_fte_hours == RMul(total_available_fte_hours, Pct(alert_fte_time_pct))
        utilization_of_allocated_time ==
            IF total_allocated_fte_hours # Zero
            THEN RDiv(total_alert_time_hours_per_year, total_allocated_fte_hours)
            ELSE Zero
        total_fte_cost == alert_ftes * avg_salary_per_year
        total_alert_handling_cost == RMul(R(total_fte_cost), Pct(alert_fte_time_pct))
        cost_per_alert ==
            IF alert_volume > 0 THEN RDiv(total_alert_handling_cost, R(alert_volume)) ELSE Zero
    IN  [cost_per_unit |-> cost_per_alert, total_cost |-> total_alert_handling_cost,
         utilization |-> utilization_of_allocated_time,
         working_hours |-> working_hours_per_fte_per_year]

\* Slip: the cost is charged by the computed utilization instead of the
\* declared percentage of FTE time.
calculate_alert_costs_byutilization(alert_volume, alert_ftes, avg_alert_triage_time, avg_salary_per_year, hours_per_day, days_per_week, weeks_per_year, holiday_sick_days, alert_fte_time_pct) ==
    IF alert_volume = 0 \/ alert_ftes = 0 THEN NoData
    ELSE
    LET total_alert_time_minutes_per_year == alert_volume * avg_alert_triage_time
        total_alert_time_hours_per_year == Frac(total_alert_time_minutes_per_year, 60)
        total_working_days == (weeks_per_year * days_per_week) - holiday_sick_days
        working_hours_per_fte_per_year == RMul(R(total_working_days), hours_per_day)
        total_available_fte_hours == RMul(R(alert_ftes), working_hours_per_fte_per_year)
        total_allocated_fte_hours == RMul(total_available_fte_hours, Pct(alert_fte_time_pct))
        utilization_of_allocated_time ==
            IF RLt(Zero, total_allocated_fte_hours)
            THEN RDiv(total_alert_time_hours_per_year, total_allocated_fte_hours)
            ELSE Zero
        total_fte_cost == alert_ftes * avg_salary_per_year
        total_alert_handling_cost == RMul(R(total_fte_cost), utilization_of_allocated_time)
        cost_per_alert ==
            IF alert_volume > 0 THEN RDiv(total_alert_handling_cost, R(alert_volume)) ELSE Zero
    IN  [cost_per_unit |-> cost_per_alert, total_cost |-> total_alert_handling_cost,
         utilization |-> utilization_of_allocated_time,
         working_hours |-> working_hours_per_fte_per_year]

calculate_alert_costs(alert_volume, alert_ftes, avg_alert_triage_time, avg_salary_per_year, hours_per_day, days_per_week, weeks_per_year, holiday_sick_days, alert_fte_time_pct) ==
    IF alert_volume = 0 \/ alert_ftes = 0 THEN NoData
    ELSE
    LET total_alert_time_minutes_per_year == alert_volume * avg_alert_triage_time
        total_alert_time_hours_per_year == Frac(total_alert_time_minutes_per_year, 60)
        total_working_days == (weeks_per_year * days_per_week) - holiday_sick_days
        working_hours_per_fte_per_year == RMul(R(total_working_days), hours_per_day)
        total_available_fte_hours == RMul(R(alert_ftes), working_hours_per_fte_per_year)
        total_allocated_fte_hours == RMul(total_available_fte_hours, Pct(alert_fte_time_pct))
        utilization_of_allocated_time ==
            IF RLt(Zero, total_allocated_fte_hours)
            THEN RDiv(total_alert_time_hours_per_year, total_allocated_fte_hours)
            ELSE Zero
        total_fte_cost == alert_ftes * avg_salary_per_year
        total_alert_handling_cost == RMul(R(total_fte_cost), Pct(alert_fte_time_pct))
        cost_per_alert ==
            IF alert_volume > 0 THEN RDiv(total_alert_handling_cost, R(alert_volume)) ELSE Zero
    IN  [cost_per_unit |-> cost_per_alert, total_cost |-> total_alert_handling_cost,
         utilization |-> utilization_of_allocated_time,
         working_hours |-> working_hours_per_fte_per_year]

calculate_incident_costs(incident_volume, incident_ftes, avg_incident_triage_time, avg_salary_per_year, hours_per_day, days_per_week, weeks_per_year, holiday_sick_days, incident_fte_time_pct) ==
    IF incident_volume = 0 \/ incident_ftes = 0 THEN NoData
    ELSE
    LET total_incident_time_minutes_per_year == incident_volume * avg_incident_triage_time
        total_incident_time_hours_per_year == Frac(total_incident_time_minutes_per_year, 60)
        total_working_days == (weeks_per_year * days_per_week) - holiday_sick_days
        working_hours_per_fte_per_year == RMul(R(total_working_days), hours_per_day)
        total_available_fte_hours == RMul(R(incident_ftes), working_hours_per_fte_per_year)
        total_allocated_fte_hours == RMul(total_available_fte_hours, Pct(incident_fte_time_pct))
        utilization_of_allocated_time ==
            IF RLt(Zero, total_allocated_fte_hours)
            THEN RDiv(total_incident_time_hours_per_year, total_allocated_fte_hours)
            ELSE Zero
        total_fte_cost == incident_ftes * avg_salary_per_year
        total_incident_handling_cost == RMul(R(total_fte_cost), Pct(incident_fte_time_pct))
        cost_per_incident ==
            IF incident_volume > 0 THEN RDiv(total_incident_handling_cost, R(incident_volume)) ELSE Zero
    IN  [cost_per_unit |-> cost_per_incident, total_cost |-> total_incident_handling_cost,
         utilization |-> utilization_of_allocated_time,
         working_hours |-> working_hours_per_fte_per_year]

calculate_asset_discovery_costs(asset_volume, manual_discovery_cycles_per_year, hours_per_discovery_cycle, asset_management_ftes, avg_asset_mgmt_fte_salary, hours_per_day, days_per_week, weeks_per_year, holiday_sick_days, asset_mgmt_fte_time_pct) ==
    IF asset_volume = 0 \/ asset_management_ftes = 0 THEN NoData
    ELSE
    LET total_discovery_hours_per_year == manual_discovery_cycles_per_year * hours_per_discovery_cycle
        total_working_days == (weeks_per_year * days_per_week) - holiday_sick_days
        working_hours_per_fte_per_year == RMul(R(total_working_days), hours_per_day)
        total_available_fte_hours == RMul(R(asset_management_ftes), working_hours_per_fte_per_year)
        total_allocated_fte_hours == RMul(total_available_fte_hours, Pct(asset_mgmt_fte_time_pct))
        utilization_of_allocated_time ==
            IF RLt(Zero, total_allocated_fte_hours)
            THEN RDiv(R(total_discovery_hours_per_year), total_allocated_fte_hours)
            ELSE Zero
        total_fte_cost == asset_management_ftes * avg_asset_mgmt_fte_salary
        total_discovery_cost == RMul(R(total_fte_cost), Pct(asset_mgmt_fte_time_pct))
        cost_per_discovery_cycle ==
            IF manual_discovery_cycles_per_year > 0
            THEN RDiv(total_discovery_cost, R(manual_discovery_cycles_per_year))
            ELSE Zero
    IN  [cost_per_unit |-> cost_per_discovery_cycle, total_cost |-> total_discovery_cost,
         utilization |-> utilization_of_allocated_time,
         working_hours |-> working_hours_per_fte_per_year]

\* ------------------------------------------------------------------------
\* 4.3 Benefit calculator (baseline savings of the recomputation pass)
\* ------------------------------------------------------------------------
NoSavings == [avoided |-> Zero, remaining |-> Zero, reduction_savings |-> Zero,
              remaining_handling_cost |-> Zero, triage_savings |-> Zero]

\* Slip: the triage saving is taken on the whole volume instead of on the
\* alerts that remain after the reduction.
alert_baseline_savings_wholevolume(alert_volume, alert_reduction_pct, cost_per_alert, alert_triage_time_saved_pct) ==
    LET avoided_alerts == RMul(R(alert_volume), Pct(alert_reduction_pct))
        remaining_alerts == RSub(R(alert_volume), avoided_alerts)
        alert_reduction_savings == RMul(avoided_alerts, cost_per_alert)
        remaining_alert_handling_cost == RMul(R(alert_volume), cost_per_alert)
        alert_triage_savings == RMul(remaining_alert_handling_cost, Pct(alert_triage_time_saved_pct))
    IN  [avoided |-> avoided_alerts, remaining |-> remaining_alerts,
         reduction_savings |-> alert_reduction_savings,
         remaining_handling_cost |-> remaining_alert_handling_cost,
         triage_savings |-> alert_triage_savings]

alert_baseline_savings(alert_volume, alert_reduction_pct, cost_per_alert, alert_triage_time_saved_pct) ==
    LET avoided_alerts == RMul(R(alert_volume), Pct(alert_reduction_pct))
        remaining_alerts == RSub(R(alert_volume), avoided_alerts)
        alert_reduction_savings == RMul(avoided_alerts, cost_per_alert)
        remaining_alert_handling_cost == RMul(remaining_alerts, cost_per_alert)
        alert_triage_savings == RMul(remaining_alert_handling_cost, Pct(alert_triage_time_saved_pct))
    IN  [avoided |-> avoided_alerts, remaining |-> remaining_alerts,
         reduction_savings |-> alert_reduction_savings,
         remaining_handling_cost |-> remaining_alert_handling_cost,
         triage_savings |-> alert_triage_savings]

incident_baseline_savings(incident_volume, incident_reduction_pct, cost_per_incident, incident_triage_time_savings_pct) ==
    LET avoided_incidents == RMul(R(incident_volume), Pct(incident_reduction_pct))
        remaining_incidents == RSub(R(incident_volume), avoided_incidents)
        incident_reduction_savings == RMul(avoided_incidents, cost_per_incident)
        remaining_incident_handling_cost == RMul(remaining_incidents, cost_per_incident)
        incident_triage_savings == RMul(remaining_incident_handling_cost, Pct(incident_triage_time_savings_pct))
    IN  [avoided |-> avoided_incidents, remaining |-> remaining_incidents,
         reduction_savings |-> incident_reduction_savings,
         remaining_handling_cost |-> remaining_incident_handling_cost,
         triage_savings |-> incident_triage_savings]

major_incident_savings(major_incident_volume, mttr_improvement_pct, avg_mttr_hours, avg_major_incident_cost) ==
    LET mttr_hours_saved_per_incident == RMul(Pct(mttr_improvement_pct), avg_mttr_hours)
        total_mttr_hours_saved == RMul(R(major_incident_volume), mttr_hours_saved_per_incident)
    IN  RMul(total_mttr_hours_saved, R(avg_major_incident_cost))

\* ------------------------------------------------------------------------
\* 4.4 Cash-flow projector, 4.5 discounting and metrics, 4.6 scenarios
\* ------------------------------------------------------------------------
RECURSIVE RSum(_)
RSum(seq) == IF seq = <<>> THEN Zero ELSE RAdd(Head(seq), RSum(Tail(seq)))

np_mean(seq) == RDiv(RSum(seq), R(Len(seq)))

RECURSIVE RPow(_, _)
RPow(a, k) == IF k = 0 THEN One ELSE RMul(a, RPow(a, k - 1))

\* int(): truncation toward zero
PyInt(a) == IF a.n >= 0 THEN a.n \div a.d ELSE -((-a.n) \div a.d)

Max(a, b) == IF a >= b THEN a ELSE b

\* st.session_state.get(key, default)
Get(session_state, key, default) ==
    IF key \in session_state.keys THEN session_state[key] ELSE default

ScenarioNames == <<"Conservative", "Expected", "Optimistic">>

\* Slip: the Optimistic scenario is given the longer implementation delay.
scenarios_optimistic_delay_longer ==
    [Conservative |-> [benefits_multiplier |-> Frac(7, 10),
                       implementation_delay_multiplier |-> Frac(13, 10)],
     Expected     |-> [benefits_multiplier |-> One,
                       implementation_delay_multiplier |-> One],
     Optimistic   |-> [benefits_multiplier |-> Frac(12, 10),
                       implementation_delay_multiplier |-> Frac(13, 10)]]

\* Slip: the Conservative scenario keeps the baseline implementation delay.
scenarios_conservative_delay_baseline ==
    [Conservative |-> [benefits_multiplier |-> Frac(7, 10),
                       implementation_delay_multiplier |-> One],
     Expected     |-> [benefits_multiplier |-> One,
                       implementation_delay_multiplier |-> One],
     Optimistic   |-> [benefits_multiplier |-> Frac(12, 10),
                       implementation_delay_multiplier |-> Frac(8, 10)]]

scenarios ==
    [Conservative |-> [benefits_multiplier |-> Frac(7, 10),
                       implementation_delay_multiplier |-> Frac(13, 10)],
     Expected     |-> [benefits_multiplier |-> One,
                       implementation_delay_multiplier |-> One],
     Optimistic   |-> [benefits_multiplier |-> Frac(12, 10),
                       implementation_delay_multiplier |-> Frac(8, 10)]]

\* The month loop of calculate_scenario_results: the factors appended for
\* month = year_start_month .. year_end_month.
RECURSIVE benefit_factors_of_months(_, _, _, _)
benefit_factors_of_months(month, year_end_month, scenario_impl_delay, scenario_ramp_up) ==
    IF month > year_end_month THEN <<>>
    ELSE <<calculate_benefit_realization_factor(month, scenario_impl_delay, scenario_ramp_up)>>
         \o benefit_factors_of_months(month + 1, year_end_month, scenario_impl_delay,
                                      scenario_ramp_up)

RECURSIVE cost_factors_of_months(_, _, _)
cost_factors_of_months(month, year_end_month, billing_start_month) ==
    IF month > year_end_month THEN <<>>
    ELSE <<calculate_platform_cost_factor(month, billing_start_month)>>
         \o cost_factors_of_months(month + 1, year_end_month, billing_start_month)

\* Slip: the one-time services cost is charged in every year.
cash_flow_year_services_every_year(year, scenario_benefits, scenario_impl_delay, scenario_ramp_up, billing_start_month, platform_cost, services_cost) ==
    LET year_start_month == (year - 1) * 12 + 1
        year_end_month == year * 12
        monthly_benefit_factors ==
            benefit_factors_of_months(year_start_month, year_end_month, scenario_impl_delay,
                                      scenario_ramp_up)
        monthly_cost_factors ==
            cost_factors_of_months(year_start_month, year_end_month, billing_start_month)
        avg_benefit_realization_factor == np_mean(monthly_benefit_factors)
        avg_cost_factor == np_mean(monthly_cost_factors)
        year_benefits == RMul(scenario_benefits, avg_benefit_realization_factor)
        year_platform_cost == RMul(R(platform_cost), avg_cost_factor)
        year_services_cost == R(services_cost)
        year_net_cash_flow == RSub(RSub(year_benefits, year_platform_cost), year_services_cost)
    IN  [year |-> year, benefits |-> year_benefits, platform_cost |-> year_platform_cost,
         services_cost |-> year_services_cost, net_cash_flow |-> year_net_cash_flow,
         benefit_realization_factor |-> avg_benefit_realization_factor,
         cost_factor |-> avg_cost_factor]

\* One iteration of the year loop of calculate_scenario_results.
cash_flow_year(year, scenario_benefits, scenario_impl_delay, scenario_ramp_up, billing_start_month, platform_cost, services_cost) ==
    LET year_start_month == (year - 1) * 12 + 1
        year_end_month == year * 12
        monthly_benefit_factors ==
            benefit_factors_of_months(year_start_month, year_end_month, scenario_impl_delay,
                                      scenario_ramp_up)
        monthly_cost_factors ==
            cost_factors_of_months(year_start_month, year_end_month, billing_start_month)
        avg_benefit_realization_factor == np_mean(monthly_benefit_factors)
        avg_cost_factor == np_mean(monthly_cost_factors)
        year_benefits == RMul(scenario_benefits, avg_benefit_realization_factor)
        year_platform_cost == RMul(R(platform_cost), avg_cost_factor)
        year_services_cost == IF year = 1 THEN R(services_cost) ELSE Zero
        year_net_cash_flow == RSub(RSub(year_benefits, year_platform_cost), year_services_cost)
    IN  [year |-> year, benefits |-> year_benefits, platform_cost |-> year_platform_cost,
         services_cost |-> year_services_cost, net_cash_flow |-> year_net_cash_flow,
         benefit_realization_factor |-> avg_benefit_realization_factor,
         cost_factor |-> avg_cost_factor]

\* The year loop of calculate_scenario_results: the entries appended for
\* year .. evaluation_years.
RECURSIVE cash_flows_of_years(_, _, _, _, _, _, _, _)
cash_flows_of_years(year, evaluation_years, scenario_benefits, scenario_impl_delay, scenario_ramp_up, billing_start_month, platform_cost, services_cost) ==
    IF year > evaluation_years THEN <<>>
    ELSE <<cash_flow_year(year, scenario_benefits, scenario_impl_delay, scenario_ramp_up,
                          billing_start_month, platform_cost, services_cost)>>
         \o cash_flows_of_years(year + 1, evaluation_years, scenario_benefits,
                scenario_impl_delay, scenario_ramp_up, billing_start_month, platform_cost,
                services_cost)

\* Slip: the first year is not discounted (exponent year - 1).
scenario_npv_first_year_undiscounted(scenario_cash_flows, discount_rate) ==
    RSum([i \in DOMAIN scenario_cash_flows |->
            RDiv(scenario_cash_flows[i].net_cash_flow,
                 RPow(RAdd(One, discount_rate), scenario_cash_flows[i].year - 1))])

scenario_npv(scenario_cash_flows, discount_rate) ==
    RSum([i \in DOMAIN scenario_cash_flows |->
            RDiv(scenario_cash_flows[i].net_cash_flow,
                 RPow(RAdd(One, discount_rate), scenario_cash_flows[i].year))])

\* Slip: the total cost of ownership leaves out the services cost.
scenario_tco_platform_only(scenario_cash_flows) ==
    RSum([i \in DOMAIN scenario_cash_flows |-> scenario_cash_flows[i].platform_cost])

scenario_tco(scenario_cash_flows) ==
    RSum([i \in DOMAIN scenario_cash_flows |->
            RAdd(scenario_cash_flows[i].platform_cost, scenario_cash_flows[i].services_cost)])

NotReached == [na |-> TRUE, n |-> 0, unit |-> "N/A"]

Reached(k, u) == [na |-> FALSE, n |-> k, unit |-> u]

\* Slip: the yearly loop looks at the year's own net cash flow, not at the
\* cumulative one.
RECURSIVE scenario_payback_single_year(_, _, _)
scenario_payback_single_year(scenario_cash_flows, i, cumulative_net_cash_flow) ==
    IF i > Len(scenario_cash_flows) THEN NotReached
    ELSE IF RLe(Zero, scenario_cash_flows[i].net_cash_flow)
         THEN Reached(scenario_cash_flows[i].year, "years")
         ELSE scenario_payback_single_year(scenario_cash_flows, i + 1, cumulative_net_cash_flow)

\* The yearly payback loop of calculate_scenario_results.
RECURSIVE scenario_payback(_, _, _)
scenario_payback(scenario_cash_flows, i, cumulative_net_cash_flow) ==
    IF i > Len(scenario_cash_flows) THEN NotReached
    ELSE LET cumulative == RAdd(cumulative_net_cash_flow, scenario_cash_flows[i].net_cash_flow)
         IN  IF RLe(Zero, cumulative)
             THEN Reached(scenario_cash_flows[i].year, "years")
             ELSE scenario_payback(scenario_cash_flows, i + 1, cumulative)

\* Slip: the ROI is divided out without looking at the denominator.
scenario_roi_unguarded(npv, tco) == RDiv(npv, tco)

\* Line 1554: scenario_roi.
scenario_roi(npv, tco) == IF tco # Zero THEN RDiv(npv, tco) ELSE Zero

calculate_scenario_results(benefits_multiplier, implementation_delay_multiplier, scenario_name, billing_start_month, session_state) ==
    LET total_annual_benefits == Get(session_state, "total_annual_benefits", R(100000))
        implementation_delay_months == Get(session_state, "implementation_delay", 6)
        benefits_ramp_up_months == Get(session_state, "benefits_ramp_up", 3)
        platform_cost == Get(session_state, "platform_cost", 0)
        services_cost == Get(session_state, "services_cost", 0)
        evaluation_years == Get(session_state, "evaluation_years", 3)
        discount_rate == Frac(Get(session_state, "discount_rate", 10), 100)
        scenario_benefits == RMul(total_annual_benefits, benefits_multiplier)
        scenario_impl_delay ==
            Max(0, PyInt(RMul(R(implementation_delay_months), implementation_delay_multiplier)))
        scenario_ramp_up == benefits_ramp_up_months
        scenario_cash_flows ==
            cash_flows_of_years(1, evaluation_years, scenario_benefits, scenario_impl_delay,
                                scenario_ramp_up, billing_start_month, platform_cost,
                                services_cost)
        npv == scenario_npv(scenario_cash_flows, discount_rate)
        tco == scenario_tco(scenario_cash_flows)
    IN  [npv |-> npv,
         roi |-> scenario_roi(npv, tco),
         payback |-> scenario_payback(scenario_cash_flows, 1, Zero),
         impl_delay |-> scenario_impl_delay,
         benefits_mult |-> benefits_multiplier,
         cash_flows |-> scenario_cash_flows,
         annual_benefits |-> scenario_benefits,
         payback_months |-> NotReached,
         has_payback_months |-> FALSE]

\* Slip: the monthly platform cost is the full annual cost.
monthly_net_cash_flow_annual_cost(month, annual_benefits, annual_platform_cost, implementation_delay_months, benefits_ramp_up_months, billing_start_month) ==
    LET benefit_factor ==
            calculate_benefit_realization_factor(month, implementation_delay_months, benefits_ramp_up_months)
        cost_factor == calculate_platform_cost_factor(month, billing_start_month)
        monthly_benefit == RMul(RDiv(annual_benefits, R(12)), benefit_factor)
        monthly_platform_cost == RMul(R(annual_platform_cost), cost_factor)
    IN  RSub(monthly_benefit, monthly_platform_cost)

\* Body of the month loop of calculate_payback_months up to the accumulation.
monthly_net_cash_flow(month, annual_benefits, annual_platform_cost, implementation_delay_months, benefits_ramp_up_months, billing_start_month) ==
    LET benefit_factor ==
            calculate_benefit_realization_factor(month, implementation_delay_months, benefits_ramp_up_months)
        cost_factor == calculate_platform_cost_factor(month, billing_start_month)
        monthly_benefit == RMul(RDiv(annual_benefits, R(12)), benefit_factor)
        monthly_platform_cost == RMul(RDiv(R(annual_platform_cost), R(12)), cost_factor)
    IN  RSub(monthly_benefit, monthly_platform_cost)

\* Slip: the loop returns only once the cumulative cash flow is strictly positive.
RECURSIVE payback_loop_strict(_, _, _, _, _, _, _, _)
payback_loop_strict(month, cumulative_cash_flow, annual_benefits, annual_platform_cost, implementation_delay_months, benefits_ramp_up_months, billing_start_month, max_months_eval) ==
    IF month > max_months_eval
    THEN [payback_month |-> NotReached, cumulative_cash_flow |-> cumulative_cash_flow,
          month |-> month - 1]
    ELSE LET cumulative ==
                 RAdd(cumulative_cash_flow,
                      monthly_net_cash_flow(month, annual_benefits, annual_platform_cost,
                          implementation_delay_months, benefits_ramp_up_months, billing_start_month))
         IN  IF RLt(Zero, cumulative)
             THEN [payback_month |-> Reached(month, "months"),
                   cumulative_cash_flow |-> cumulative, month |-> month]
             ELSE payback_loop_strict(month + 1, cumulative, annual_benefits,
                      annual_platform_cost, implementation_delay_months,
                      benefits_ramp_up_months, billing_start_month, max_months_eval)

\* The month loop of calculate_payback_months from `month` on, returning the
\* function's locals at its return.
RECURSIVE payback_loop(_, _, _, _, _, _, _, _)
payback_loop(month, cumulative_cash_flow, annual_benefits, annual_platform_cost, implementation_delay_months, benefits_ramp_up_months, billing_start_month, max_months_eval) ==
    IF month > max_months_eval
    THEN [payback_month |-> NotReached, cumulative_cash_flow |-> cumulative_cash_flow,
          month |-> month - 1]
    ELSE LET cumulative ==
                 RAdd(cumulative_cash_flow,
                      monthly_net_cash_flow(month, annual_benefits, annual_platform_cost,
                          implementation_delay_months, benefits_ramp_up_months, billing_start_month))
         IN  IF RLe(Zero, cumulative)
             THEN [payback_month |-> Reached(month, "months"),
                   cumulative_cash_flow |-> cumulative, month |-> month]
             ELSE payback_loop(month + 1, cumulative, annual_benefits, annual_platform_cost,
                      implementation_delay_months, benefits_ramp_up_months, billing_start_month,
                      max_months_eval)

\* The accumulation of calculate_payback_months without its early return:
\* cumulative_cash_flow after the months month..last_month have been added.
RECURSIVE payback_cumulative(_, _, _, _, _, _, _, _)
payback_cumulative(cumulative_cash_flow, month, last_month, annual_benefits, annual_platform_cost, implementation_delay_months, benefits_ramp_up_months, billing_start_month) ==
    IF month > last_month THEN cumulative_cash_flow
    ELSE payback_cumulative(
             RAdd(cumulative_cash_flow,
                  monthly_net_cash_flow(month, annual_benefits, annual_platform_cost,
                      implementation_delay_months, benefits_ramp_up_months,
                      billing_start_month)),
             month + 1, last_month, annual_benefits, annual_platform_cost,
             implementation_delay_months, benefits_ramp_up_months, billing_start_month)

calculate_payback_months(annual_benefits, annual_platform_cost, one_time_services_cost, implementation_delay_months, benefits_ramp_up_months, billing_start_month, max_months_eval) ==
    payback_loop(1, RSub(Zero, R(one_time_services_cost)), annual_benefits, annual_platform_cost,
                 implementation_delay_months, benefits_ramp_up_months, billing_start_month,
                 max_months_eval)

\* ------------------------------------------------------------------------
\* State
\* ------------------------------------------------------------------------
VARIABLES
    tp,         \* one call of a time-phasing function: arguments, position, result
    ca,         \* one cost-allocation call and the baseline savings derived from it
    session,    \* st.session_state: widget values and published computed values
    loc,        \* module-level variables of the recomputation pass
    pc,         \* position of the recomputation pass in the script
    heap,       \* the list objects the calls of calculate_scenario_results create
    scn,        \* the scenario loop taken one call at a time: references and results
    hist,       \* the passes finished so far: their parameter mappings and results
    mc,         \* the state of np.random and the Monte Carlo calls made so far
    diag,       \* the findings, the data-quality score and the health issues shown
    io          \* the configuration store, the file exchanged and the reports built

\* The variables only the specifications of single parts of the script use.
aside == <<heap, scn, hist, mc, diag, io>>

vars == <<tp, ca, session, loc, pc, aside>>

NoResult == [n |-> 0, d |-> 1]

tpIdle == [pc |-> "idle", fn |-> "none", month |-> 1, delay |-> 0, ramp |-> 0,
           billing |-> 1, result |-> NoResult]

NoCosts == [cost_per_unit |-> Zero, total_cost |-> Zero, utilization |-> Zero,
            working_hours |-> Zero]

caIdle == [pc |-> "idle", fn |-> "none", volume |-> 0, ftes |-> 0, minutes |-> 0,
           salary |-> 0, hours2 |-> 16, days |-> 5, weeks |-> 52, holidays |-> 25,
           pct |-> 100, res |-> NoCosts, red |-> 0, eff |-> 0,
           cost_per_hour |-> 0, mttr_hours2 |-> 0, savings |-> NoSavings,
           mttr_savings |-> Zero]

\* Keys the widgets of the sidebar keep in the session store.
WidgetKeys ==
    {"implementation_delay", "benefits_ramp_up", "billing_start_month",
     "hours_per_day", "days_per_week", "weeks_per_year", "holiday_sick_days",
     "alert_volume", "alert_ftes", "alert_fte_time_pct", "avg_alert_triage_time",
     "avg_alert_fte_salary", "alert_reduction_pct", "alert_triage_time_saved_pct",
     "incident_volume", "incident_ftes", "incident_fte_time_pct",
     "avg_incident_triage_time", "avg_incident_fte_salary", "incident_reduction_pct",
     "incident_triage_time_savings_pct",
     "major_incident_volume", "avg_major_incident_cost", "avg_mttr_hours",
     "mttr_improvement_pct",
     "asset_volume", "manual_discovery_cycles_per_year", "hours_per_discovery_cycle",
     "asset_management_ftes", "asset_mgmt_fte_time_pct", "avg_asset_mgmt_fte_salary",
     "asset_discovery_automation_pct",
     "tool_savings", "people_efficiency", "fte_avoidance", "sla_penalty",
     "revenue_growth", "capex_savings", "opex_savings",
     "platform_cost", "services_cost", "evaluation_years", "discount_rate"}

NoScenarioResult ==
    [npv |-> Zero, roi |-> Zero, payback |-> NotReached, impl_delay |-> 0,
     benefits_mult |-> One, cash_flows |-> <<>>, annual_benefits |-> Zero,
     payback_months |-> NotReached, has_payback_months |-> FALSE]

NoScenarioResults ==
    [Conservative |-> NoScenarioResult, Expected |-> NoScenarioResult,
     Optimistic |-> NoScenarioResult]

\* The session store after the widgets ran with their default values; the
\* computed keys are absent until a pass publishes them.
DefaultSession ==
    [keys |-> WidgetKeys,
     implementation_delay |-> 0, benefits_ramp_up |-> 0, billing_start_month |-> 1,
     hours_per_day |-> R(8), days_per_week |-> 5, weeks_per_year |-> 52,
     holiday_sick_days |-> 25,
     alert_volume |-> 0, alert_ftes |-> 0, alert_fte_time_pct |-> 100,
     avg_alert_triage_time |-> 0, avg_alert_fte_salary |-> 0, alert_reduction_pct |-> 0,
     alert_triage_time_saved_pct |-> 0,
     incident_volume |-> 0, incident_ftes |-> 0, incident_fte_time_pct |-> 100,
     avg_incident_triage_time |-> 0, avg_incident_fte_salary |-> 0,
     incident_reduction_pct |-> 0, incident_triage_time_savings_pct |-> 0,
     major_incident_volume |-> 0, avg_major_incident_cost |-> 0, avg_mttr_hours |-> Zero,
     mttr_improvement_pct |-> 0,
     asset_volume |-> 0, manual_discovery_cycles_per_year |-> 0,
     hours_per_discovery_cycle |-> 0, asset_management_ftes |-> 0,
     asset_mgmt_fte_time_pct |-> 100, avg_asset_mgmt_fte_salary |-> 0,
     asset_discovery_automation_pct |-> 0,
     tool_savings |-> 0, people_efficiency |-> 0, fte_avoidance |-> 0, sla_penalty |-> 0,
     revenue_growth |-> 0, capex_savings |-> 0, opex_savings |-> 0,
     platform_cost |-> 0, services_cost |-> 0, evaluation_years |-> 3, discount_rate |-> 3,
     cost_per_alert |-> Zero, cost_per_incident |-> Zero,
     total_alert_handling_cost |-> Zero, total_incident_handling_cost |-> Zero,
     alert_fte_percentage |-> Zero, incident_fte_percentage |-> Zero,
     working_hours_per_fte_per_year |-> Zero,
     cost_per_discovery_cycle |-> Zero, total_discovery_cost |-> Zero,
     discovery_fte_percentage |-> Zero, asset_discovery_savings |-> Zero,
     alert_reduction_savings |-> Zero, alert_triage_savings |-> Zero,
     incident_reduction_savings |-> Zero, incident_triage_savings |-> Zero,
     major_incident_savings |-> Zero, total_annual_benefits |-> Zero,
     scenario_results |-> NoScenarioResults,
     total_operational_savings_from_time_saved |-> Zero,
     equivalent_ftes_from_savings |-> Zero]

NoTrace == [cumulative_cash_flow |-> Zero, month |-> 0]

NoLocals ==
    [alert |-> NoCosts, incident |-> NoCosts, discovery |-> NoCosts,
     asset_discovery_savings |-> Zero,
     alert_savings |-> NoSavings, incident_savings |-> NoSavings,
     major_incident_savings |-> Zero, total_annual_benefits |-> Zero,
     scenario_results |-> NoScenarioResults,
     total_operational_savings_from_time_saved |-> Zero,
     equivalent_ftes_from_savings |-> Zero,
     payback_locals |-> [Conservative |-> NoTrace, Expected |-> NoTrace,
                         Optimistic |-> NoTrace]]

\* Line 1518: no list has been created yet. There is one address per scenario.
NoList == [allocated |-> FALSE, items |-> <<>>]

EmptyHeap == [address \in 1..Len(ScenarioNames) |-> NoList]

NoRefs == [Conservative |-> 0, Expected |-> 0, Optimistic |-> 0]

scnIdle ==
    [computed |-> {}, mutated |-> {}, ref |-> NoRefs, result |-> NoScenarioResults,
     store |-> DefaultSession]

histIdle == [passes |-> 0, done |-> {}, last |-> <<>>]

\* np.random before any call of the script: a generator state and no run.
mcIdle == [rng |-> [seed |-> 0, drawn |-> 0], runs |-> <<>>, other |-> 0]

\* Nothing diagnosed yet.
NoValidation == [done |-> FALSE, warnings |-> <<>>, errors |-> <<>>]

diagIdle == [done |-> FALSE, red_flags |-> <<>>, warnings |-> <<>>, score |-> 100,
             issues |-> <<>>, validation |-> NoValidation]

\* No file exchanged, no report built; the store of the codec is set by the
\* specifications that use it.
ioIdle == [store |-> <<>>, exported |-> <<>>, file |-> <<>>, origin |-> "none",
           imports |-> <<>>, reports |-> <<>>]

AsideIdle ==
    /\ io = ioIdle
    /\ heap = EmptyHeap
    /\ scn = scnIdle
    /\ hist = histIdle
    /\ mc = mcIdle
    /\ diag = diagIdle

PassIdle ==
    /\ session = DefaultSession
    /\ loc = NoLocals
    /\ pc = "idle"

\* ------------------------------------------------------------------------
\* Specification of the time-phasing functions (arguments drawn in Init)
\* ------------------------------------------------------------------------
BenefitFrames ==
    {[pc |-> "call", fn |-> "benefit", month |-> m, delay |-> dl, ramp |-> r,
      billing |-> 1, result |-> NoResult] :
        m \in 1..MaxMonth, dl \in 0..MaxDelay, r \in 0..MaxRamp}

CostFrames ==
    {[pc |-> "call", fn |-> "cost", month |-> m, delay |-> 0, ramp |-> 0,
      billing |-> b, result |-> NoResult] :
        m \in 1..MaxMonth, b \in 1..MaxBilling}

InitFactor ==
    /\ tp \in BenefitFrames \cup CostFrames
    /\ ca = caIdle
    /\ PassIdle
    /\ AsideIdle

CallBenefitFactor ==
    /\ tp.pc = "call"
    /\ tp.fn = "benefit"
    /\ tp' = [tp EXCEPT !.pc = "done",
                        !.result = calculate_benefit_realization_factor(tp.month, tp.delay, tp.ramp)]
    /\ UNCHANGED <<ca, session, loc, pc, aside>>

CallPlatformCostFactor ==
    /\ tp.pc = "call"
    /\ tp.fn = "cost"
    /\ tp' = [tp EXCEPT !.pc = "done",
                        !.result = calculate_platform_cost_factor(tp.month, tp.billing)]
    /\ UNCHANGED <<ca, session, loc, pc, aside>>

NextFactor == CallBenefitFactor \/ CallPlatformCostFactor

SpecFactor == InitFactor /\ [][NextFactor]_vars

BenefitDone == tp.pc = "done" /\ tp.fn = "benefit"

CostDone == tp.pc = "done" /\ tp.fn = "cost"

Min(a, b) == IF a <= b THEN a ELSE b

\* The part of C1 that the code satisfies: never a zero division, 0 up to the
\* delay, 1 after the delay when there is no ramp, min(1, (month-delay)/ramp)
\* otherwise, always within [0,1], and the worked example delay=6, ramp=3.
C1_Core ==
    /\ ~IsError(tp.result)
    /\ tp.month <= tp.delay => tp.result = Zero
    /\ (tp.ramp = 0 /\ tp.month > tp.delay) => tp.result = One
    /\ (tp.ramp > 0 /\ tp.month > tp.delay) =>
          tp.result.n * tp.ramp = tp.result.d * Min(tp.ramp, tp.month - tp.delay)
    /\ RLe(Zero, tp.result) /\ RLe(tp.result, One)
    /\ (tp.delay = 6 /\ tp.ramp = 3) =>
          /\ tp.month = 6 => tp.result = Zero
          /\ tp.month = 7 => tp.result = [n |-> 1, d |-> 3]
          /\ tp.month = 9 => tp.result = One
          /\ tp.month = 10 => tp.result = One

\* C1 as stated: the contract above and, as its consequence, factor 1 for
\* every month >= delay + ramp (without requiring ramp > 0).
C1_AsStated ==
    BenefitDone =>
        /\ C1_Core
        /\ tp.month >= tp.delay + tp.ramp => tp.result = One

\* C1 (amended): calculate_benefit_realization_factor returns 0 when
\* month <= delay, 1 when ramp = 0 and month > delay, min(1, (month-delay)/ramp)
\* otherwise; it never divides by zero, its result lies in [0,1], and it is 1
\* for every month >= delay + ramp provided ramp > 0.
C1_BenefitFactorContract ==
    BenefitDone =>
        /\ C1_Core
        /\ (tp.ramp > 0 /\ tp.month >= tp.delay + tp.ramp) => tp.result = One

C1_Witness ==
    /\ BenefitDone
    /\ tp.delay = 6 /\ tp.ramp = 3 /\ tp.month = 7
    /\ tp.result = [n |-> 1, d |-> 3]

\* C2: for fixed delay and ramp the benefit realization factor is
\* non-decreasing in month: every earlier month m1 <= month has a factor
\* no larger than the factor returned for month.
C2_FactorMonotone ==
    BenefitDone =>
        \A m1 \in 1..tp.month :
            RLe(calculate_benefit_realization_factor(m1, tp.delay, tp.ramp), tp.result)

C2_Witness ==
    /\ BenefitDone
    /\ tp.ramp >= 2
    /\ tp.month = tp.delay + tp.ramp
    /\ tp.result = One
    /\ RLt(Zero, calculate_benefit_realization_factor(tp.month - 1, tp.delay, tp.ramp))
    /\ RLt(calculate_benefit_realization_factor(tp.month - 1, tp.delay, tp.ramp), One)

\* C3: calculate_platform_cost_factor is a step function of month: 0 for
\* every month < billing start, 1 for every month >= billing start, and no
\* other value.
C3_CostFactorStep ==
    CostDone =>
        /\ tp.month < tp.billing => tp.result = Zero
        /\ tp.month >= tp.billing => tp.result = One
        /\ tp.result \in {Zero, One}

C3_Witness == CostDone /\ tp.month = tp.billing /\ tp.result = One

\* ------------------------------------------------------------------------
\* Specification of the cost allocation and of the savings derived from it
\* ------------------------------------------------------------------------
Volumes == (0..MaxVolume) \cup {1000}

FteCounts == 0..MaxFtes

TriageMinutes == (0..MaxMinutes) \cup {20}

Salaries == (0..MaxSalary) \cup {60000}

\* hours per day in half hours (the widget steps by 0.5)
HoursPerDay2 == {15, 16}

DaysPerWeek == {5}

WeeksPerYear == {1, 50}

HolidaySickDays == {0, 5, 10}

TimePcts == {0, 50, 100}

ReductionPcts == {0, 40, 100}

EfficiencyPcts == {0, 20, 100}

CostsPerHour == {0, 100}

MttrHours2 == {0, 5}

WorkloadFrames ==
    {[caIdle EXCEPT !.pc = "call", !.fn = f, !.volume = v, !.ftes = n, !.minutes = m,
                    !.salary = sal, !.hours2 = h, !.days = dw, !.weeks = w,
                    !.holidays = hs, !.pct = p] :
        f \in {"alert", "incident"}, v \in Volumes, n \in FteCounts, m \in TriageMinutes,
        sal \in Salaries, h \in HoursPerDay2, dw \in DaysPerWeek, w \in WeeksPerYear,
        hs \in HolidaySickDays, p \in TimePcts}

MajorIncidentFrames ==
    {[caIdle EXCEPT !.pc = "call", !.fn = "mttr", !.volume = v, !.cost_per_hour = c,
                    !.mttr_hours2 = h, !.red = p] :
        v \in Volumes, c \in CostsPerHour, h \in MttrHours2, p \in ReductionPcts}

InitCost ==
    /\ tp = tpIdle
    /\ ca \in WorkloadFrames \cup MajorIncidentFrames
    /\ PassIdle
    /\ AsideIdle

CallAlertCosts ==
    /\ ca.pc = "call"
    /\ ca.fn = "alert"
    /\ ca' = [ca EXCEPT !.pc = "costed",
                        !.res = calculate_alert_costs(ca.volume, ca.ftes, ca.minutes, ca.salary,
                                    Frac(ca.hours2, 2), ca.days, ca.weeks, ca.holidays, ca.pct)]
    /\ UNCHANGED <<tp, session, loc, pc, aside>>

CallIncidentCosts ==
    /\ ca.pc = "call"
    /\ ca.fn = "incident"
    /\ ca' = [ca EXCEPT !.pc = "costed",
                        !.res = calculate_incident_costs(ca.volume, ca.ftes, ca.minutes, ca.salary,
                                    Frac(ca.hours2, 2), ca.days, ca.weeks, ca.holidays, ca.pct)]
    /\ UNCHANGED <<tp, session, loc, pc, aside>>

AlertSavings ==
    /\ ca.pc = "costed"
    /\ ca.fn = "alert"
    /\ \E r \in ReductionPcts, e \in EfficiencyPcts :
          ca' = [ca EXCEPT !.pc = "saved", !.red = r, !.eff = e,
                           !.savings = alert_baseline_savings(ca.volume, r, ca.res.cost_per_unit, e)]
    /\ UNCHANGED <<tp, session, loc, pc, aside>>

IncidentSavings ==
    /\ ca.pc = "costed"
    /\ ca.fn = "incident"
    /\ \E r \in ReductionPcts, e \in EfficiencyPcts :
          ca' = [ca EXCEPT !.pc = "saved", !.red = r, !.eff = e,
                           !.savings = incident_baseline_savings(ca.volume, r, ca.res.cost_per_unit, e)]
    /\ UNCHANGED <<tp, session, loc, pc, aside>>

MajorIncidentSavings ==
    /\ ca.pc = "call"
    /\ ca.fn = "mttr"
    /\ ca' = [ca EXCEPT !.pc = "saved",
                        !.mttr_savings = major_incident_savings(ca.volume, ca.red,
                                              Frac(ca.mttr_hours2, 2), ca.cost_per_hour)]
    /\ UNCHANGED <<tp, session, loc, pc, aside>>

NextCost ==
    \/ CallAlertCosts
    \/ CallIncidentCosts
    \/ AlertSavings
    \/ IncidentSavings
    \/ MajorIncidentSavings

SpecCost == InitCost /\ [][NextCost]_vars

Costed == ca.pc = "costed" /\ ca.fn \in {"alert", "incident"}

Raised(res) ==
    \/ IsError(res.cost_per_unit)
    \/ IsError(res.total_cost)
    \/ IsError(res.utilization)

\* C4: cost-allocation guard: with volume = 0 or ftes = 0 the alert and the
\* incident cost functions return cost per unit 0, total allocated cost 0 and
\* utilization 0 whatever the other arguments are, and do not raise.
C4_AllocationGuard ==
    (Costed /\ (ca.volume = 0 \/ ca.ftes = 0)) =>
        /\ ~Raised(ca.res)
        /\ ca.res.cost_per_unit = Zero
        /\ ca.res.total_cost = Zero
        /\ ca.res.utilization = Zero

C4_Witness ==
    /\ Costed
    /\ ca.volume = 0 /\ ca.ftes = 2 /\ ca.salary = 60000 /\ ca.pct = 100
    /\ ca.res.total_cost = Zero

\* Allocated FTE hours times 200 (hours per day are kept in half hours and
\* the time percentage in hundredths).
AllocatedHours200 == ca.ftes * ((ca.weeks * ca.days - ca.holidays) * ca.hours2) * ca.pct

C5_CostFormulas ==
    /\ ~Raised(ca.res)
    /\ ca.res.total_cost = Frac(ca.ftes * ca.salary * ca.pct, 100)
    /\ ca.res.cost_per_unit = Frac(ca.ftes * ca.salary * ca.pct, 100 * ca.volume)
    /\ (ca.volume = 1000 /\ ca.ftes = 2 /\ ca.pct = 100 /\ ca.minutes = 20
        /\ ca.salary = 60000 /\ ca.weeks = 50 /\ ca.days = 5 /\ ca.holidays = 0
        /\ ca.hours2 = 16) =>
            /\ ca.res.working_hours = R(2000)
            /\ ca.res.cost_per_unit = R(120)
            /\ ca.res.utilization = [n |-> 1, d |-> 12]

\* C5 as stated: the utilization is the quotient of required and allocated
\* hours and is 0 only when the allocated hours are 0.
C5_AsStated ==
    (Costed /\ ca.volume > 0 /\ ca.ftes > 0) =>
        /\ C5_CostFormulas
        /\ ca.res.utilization =
              IF AllocatedHours200 = 0 THEN Zero
              ELSE Frac(ca.volume * ca.minutes * 200, 60 * AllocatedHours200)

\* C5 (amended): for volume > 0 and ftes > 0 the total allocated cost is
\* ftes * salary * pct/100, the cost per unit is that cost / volume, and the
\* utilization is (volume * minutes / 60) / (ftes * working hours * pct/100)
\* when the allocated hours are positive and 0 when they are zero or negative.
C5_CostAllocation ==
    (Costed /\ ca.volume > 0 /\ ca.ftes > 0) =>
        /\ C5_CostFormulas
        /\ ca.res.utilization =
              IF AllocatedHours200 > 0
              THEN Frac(ca.volume * ca.minutes * 200, 60 * AllocatedHours200)
              ELSE Zero

C5_Witness ==
    /\ Costed
    /\ ca.volume > 0 /\ ca.ftes > 0 /\ ca.minutes > 0
    /\ AllocatedHours200 < 0
    /\ ca.res.utilization = Zero
    /\ RLt(Zero, ca.res.cost_per_unit)

CostsOf(fn, volume, ftes, minutes, salary, hours2, days, weeks, holidays, pct) ==
    IF fn = "alert"
    THEN calculate_alert_costs(volume, ftes, minutes, salary, Frac(hours2, 2), days, weeks, holidays, pct)
    ELSE calculate_incident_costs(volume, ftes, minutes, salary, Frac(hours2, 2), days, weeks, holidays, pct)

\* C6: cost allocation is never driven by utilization: any other call that
\* agrees on volume, ftes, salary and time percentage but differs in handling
\* minutes or in the working calendar returns the same cost per unit and the
\* same total allocated cost.
C6_CostIgnoresUtilization ==
    Costed =>
        \A m \in TriageMinutes, h \in HoursPerDay2, dw \in DaysPerWeek,
           w \in WeeksPerYear, hs \in HolidaySickDays :
            LET other == CostsOf(ca.fn, ca.volume, ca.ftes, m, ca.salary, h, dw, w, hs, ca.pct)
            IN  /\ other.cost_per_unit = ca.res.cost_per_unit
                /\ other.total_cost = ca.res.total_cost

C6_Witness ==
    /\ Costed
    /\ RLt(Zero, ca.res.total_cost)
    /\ RLt(Zero, ca.res.utilization)
    /\ \E m \in TriageMinutes, w \in WeeksPerYear :
          LET other == CostsOf(ca.fn, ca.volume, ca.ftes, m, ca.salary, ca.hours2,
                               ca.days, w, ca.holidays, ca.pct)
          IN  /\ other.utilization # ca.res.utilization
              /\ other.total_cost = ca.res.total_cost

\* C7: for alerts and incidents, avoided units = volume * reduction/100,
\* remaining units = volume - avoided, reduction savings = avoided * cost per
\* unit, efficiency savings = remaining * cost per unit * efficiency/100
\* (volume 1000, cost per unit 120, 40% and 20% give 48000 and 14400); MTTR
\* savings = major incident volume * (improvement/100 * MTTR hours) * cost
\* per hour.
C7_SavingsFormulas ==
    /\ (ca.pc = "saved" /\ ca.fn \in {"alert", "incident"}) =>
          LET cpu == ca.res.cost_per_unit
          IN  /\ ca.savings.avoided = Frac(ca.volume * ca.red, 100)
              /\ ca.savings.remaining = Frac(ca.volume * (100 - ca.red), 100)
              /\ ca.savings.reduction_savings = RMul(Frac(ca.volume * ca.red, 100), cpu)
              /\ ca.savings.triage_savings =
                    RMul(Frac(ca.volume * (100 - ca.red) * ca.eff, 10000), cpu)
              /\ (ca.volume = 1000 /\ cpu = R(120) /\ ca.red = 40 /\ ca.eff = 20) =>
                    /\ ca.savings.avoided = R(400)
                    /\ ca.savings.remaining = R(600)
                    /\ ca.savings.reduction_savings = R(48000)
                    /\ ca.savings.triage_savings = R(14400)
    /\ (ca.pc = "saved" /\ ca.fn = "mttr") =>
          ca.mttr_savings = Frac(ca.volume * ca.red * ca.mttr_hours2 * ca.cost_per_hour, 200)

C7_Witness ==
    /\ ca.pc = "saved" /\ ca.fn = "alert"
    /\ ca.volume = 1000 /\ ca.res.cost_per_unit = R(120) /\ ca.red = 40 /\ ca.eff = 20
    /\ ca.savings.reduction_savings = R(48000)
    /\ ca.savings.triage_savings = R(14400)

\* ------------------------------------------------------------------------
\* Specification of one recomputation pass of the script
\* ------------------------------------------------------------------------
ImplDelays == (0..MaxImplDelay) \cup {10}

RampUps == 0..MaxRampUp

BillingStarts == {1, 13}

EvaluationYears == 1..MaxYears

DiscountRates == {0, 10}

PlatformCosts == {0, 120}

ServicesCosts == {0, 600}

ToolSavings == {0, 120}

WorkloadProfiles == {"none", "all"}

WithWorkload(ss, profile) ==
    IF profile = "none" THEN ss
    ELSE LET a == [ss EXCEPT !.alert_volume = 1000, !.alert_ftes = 2,
                             !.avg_alert_triage_time = 20, !.avg_alert_fte_salary = 300,
                             !.alert_reduction_pct = 40]
         IN       [a EXCEPT !.incident_volume = 100, !.incident_ftes = 1,
                            !.avg_incident_triage_time = 30, !.avg_incident_fte_salary = 120,
                            !.incident_reduction_pct = 100,
                            !.major_incident_volume = 2, !.avg_major_incident_cost = 120,
                            !.avg_mttr_hours = R(2), !.mttr_improvement_pct = 50,
                            !.asset_volume = 10, !.manual_discovery_cycles_per_year = 4,
                            !.hours_per_discovery_cycle = 10, !.asset_management_ftes = 1,
                            !.avg_asset_mgmt_fte_salary = 240,
                            !.asset_discovery_automation_pct = 50]

\* Three yearly net cash flows of 100000 at a 10% discount rate.
Scenario4Session ==
    [DefaultSession EXCEPT !.tool_savings = 100000, !.discount_rate = 10,
                           !.evaluation_years = 3]

\* Benefits 120000, platform 0, services 50000, delay 0, ramp 0, billing start 1.
PaybackExampleSession ==
    [DefaultSession EXCEPT !.tool_savings = 120000, !.services_cost = 50000,
                           !.evaluation_years = 1]

PassSessions ==
    {WithWorkload([DefaultSession EXCEPT !.implementation_delay = dl, !.benefits_ramp_up = r,
                                         !.billing_start_month = b, !.evaluation_years = y,
                                         !.discount_rate = dr, !.platform_cost = pl,
                                         !.services_cost = sv, !.tool_savings = ts], w) :
        dl \in ImplDelays, r \in RampUps, b \in BillingStarts, y \in EvaluationYears,
        dr \in DiscountRates, pl \in PlatformCosts, sv \in ServicesCosts,
        ts \in ToolSavings, w \in WorkloadProfiles}
    \cup {Scenario4Session, PaybackExampleSession}

Init ==
    /\ tp = tpIdle
    /\ ca = caIdle
    /\ session \in PassSessions
    /\ loc = NoLocals
    /\ pc = "costs"
    /\ AsideIdle

\* Lines 2238-2239: the working hours shown in the sidebar.
working_hours_per_fte_per_year(ss) ==
    RMul(R((ss.weeks_per_year * ss.days_per_week) - ss.holiday_sick_days), ss.hours_per_day)

\* Lines 2475-2512: cost allocation of the three categories, published.
AllocateCosts ==
    /\ pc = "costs"
    /\ LET a == calculate_alert_costs(session.alert_volume, session.alert_ftes,
                    session.avg_alert_triage_time, session.avg_alert_fte_salary,
                    session.hours_per_day, session.days_per_week, session.weeks_per_year,
                    session.holiday_sick_days, session.alert_fte_time_pct)
           i == calculate_incident_costs(session.incident_volume, session.incident_ftes,
                    session.avg_incident_triage_time, session.avg_incident_fte_salary,
                    session.hours_per_day, session.days_per_week, session.weeks_per_year,
                    session.holiday_sick_days, session.incident_fte_time_pct)
           d == calculate_asset_discovery_costs(session.asset_volume,
                    session.manual_discovery_cycles_per_year, session.hours_per_discovery_cycle,
                    session.asset_management_ftes, session.avg_asset_mgmt_fte_salary,
                    session.hours_per_day, session.days_per_week, session.weeks_per_year,
                    session.holiday_sick_days, session.asset_mgmt_fte_time_pct)
           asset_discovery_savings ==
               RMul(d.total_cost, Pct(session.asset_discovery_automation_pct))
       IN  /\ loc' = [loc EXCEPT !.alert = a, !.incident = i, !.discovery = d,
                                 !.asset_discovery_savings = asset_discovery_savings]
           /\ session' =
                 [session EXCEPT
                    !.keys = @ \cup {"cost_per_alert", "cost_per_incident",
                                     "total_alert_handling_cost", "total_incident_handling_cost",
                                     "alert_fte_percentage", "incident_fte_percentage",
                                     "working_hours_per_fte_per_year",
                                     "cost_per_discovery_cycle", "total_discovery_cost",
                                     "discovery_fte_percentage", "asset_discovery_savings"},
                    !.cost_per_alert = a.cost_per_unit,
                    !.cost_per_incident = i.cost_per_unit,
                    !.total_alert_handling_cost = a.total_cost,
                    !.total_incident_handling_cost = i.total_cost,
                    !.alert_fte_percentage = a.utilization,
                    !.incident_fte_percentage = i.utilization,
                    !.working_hours_per_fte_per_year = working_hours_per_fte_per_year(session),
                    !.cost_per_discovery_cycle = d.cost_per_unit,
                    !.total_discovery_cost = d.total_cost,
                    !.discovery_fte_percentage = d.utilization,
                    !.asset_discovery_savings = asset_discovery_savings]
    /\ pc' = "savings"
    /\ UNCHANGED <<tp, ca, aside>>

\* Lines 2539-2545.
total_annual_benefits(alert_sav, incident_sav, mttr_sav, asset_discovery_savings, ss) ==
    RSum(<<alert_sav.reduction_savings, alert_sav.triage_savings,
           incident_sav.reduction_savings, incident_sav.triage_savings, mttr_sav,
           R(ss.tool_savings), R(ss.people_efficiency), R(ss.fte_avoidance),
           R(ss.sla_penalty), R(ss.revenue_growth), R(ss.capex_savings),
           R(ss.opex_savings), asset_discovery_savings>>)

\* Slip: total_annual_benefits is added to the value the store already holds
\* (+= instead of =), so it grows from pass to pass.
ComputeSavings_accumulating ==
    /\ pc = "savings"
    /\ LET a == alert_baseline_savings(session.alert_volume, session.alert_reduction_pct,
                    loc.alert.cost_per_unit, session.alert_triage_time_saved_pct)
           i == incident_baseline_savings(session.incident_volume,
                    session.incident_reduction_pct, loc.incident.cost_per_unit,
                    session.incident_triage_time_savings_pct)
           m == major_incident_savings(session.major_incident_volume,
                    session.mttr_improvement_pct, session.avg_mttr_hours,
                    session.avg_major_incident_cost)
           total == total_annual_benefits(a, i, m, loc.asset_discovery_savings, session)
       IN  /\ loc' = [loc EXCEPT !.alert_savings = a, !.incident_savings = i,
                                 !.major_incident_savings = m,
                                 !.total_annual_benefits = total]
           /\ session' =
                 [session EXCEPT
                    !.keys = @ \cup {"alert_reduction_savings", "alert_triage_savings",
                                     "incident_reduction_savings", "incident_triage_savings",
                                     "major_incident_savings", "total_annual_benefits"},
                    !.alert_reduction_savings = a.reduction_savings,
                    !.alert_triage_savings = a.triage_savings,
                    !.incident_reduction_savings = i.reduction_savings,
                    !.incident_triage_savings = i.triage_savings,
                    !.major_incident_savings = m,
                    !.total_annual_benefits =
                        IF "total_annual_benefits" \in session.keys
                        THEN RAdd(@, total) ELSE total]
    /\ pc' = "scenarios"
    /\ UNCHANGED <<tp, ca, aside>>

\* Lines 2514-2547: baseline savings and total annual benefits, published.
ComputeSavings ==
    /\ pc = "savings"
    /\ LET a == alert_baseline_savings(session.alert_volume, session.alert_reduction_pct,
                    loc.alert.cost_per_unit, session.alert_triage_time_saved_pct)
           i == incident_baseline_savings(session.incident_volume,
                    session.incident_reduction_pct, loc.incident.cost_per_unit,
                    session.incident_triage_time_savings_pct)
           m == major_incident_savings(session.major_incident_volume,
                    session.mttr_improvement_pct, session.avg_mttr_hours,
                    session.avg_major_incident_cost)
           total == total_annual_benefits(a, i, m, loc.asset_discovery_savings, session)
       IN  /\ loc' = [loc EXCEPT !.alert_savings = a, !.incident_savings = i,
                                 !.major_incident_savings = m,
                                 !.total_annual_benefits = total]
           /\ session' =
                 [session EXCEPT
                    !.keys = @ \cup {"alert_reduction_savings", "alert_triage_savings",
                                     "incident_reduction_savings", "incident_triage_savings",
                                     "major_incident_savings", "total_annual_benefits"},
                    !.alert_reduction_savings = a.reduction_savings,
                    !.alert_triage_savings = a.triage_savings,
                    !.incident_reduction_savings = i.reduction_savings,
                    !.incident_triage_savings = i.triage_savings,
                    !.major_incident_savings = m,
                    !.total_annual_benefits = total]
    /\ pc' = "scenarios"
    /\ UNCHANGED <<tp, ca, aside>>

\* Lines 2576-2581: the call of calculate_scenario_results for one scenario.
scenario_result_of(scenario_name, ss) ==
    calculate_scenario_results(scenarios[scenario_name].benefits_multiplier,
        scenarios[scenario_name].implementation_delay_multiplier, scenario_name,
        ss.billing_start_month, ss)

\* Lines 2549-2589: the three scenarios (the colour, description and icon
\* added to each result are presentation only and left out).
ComputeScenarios ==
    /\ pc = "scenarios"
    /\ loc' = [loc EXCEPT !.scenario_results =
                  [Conservative |-> scenario_result_of("Conservative", session),
                   Expected     |-> scenario_result_of("Expected", session),
                   Optimistic   |-> scenario_result_of("Optimistic", session)]]
    /\ session' = [session EXCEPT !.keys = @ \cup {"scenario_results"},
                                  !.scenario_results = loc'.scenario_results]
    /\ pc' = "equivalent_ftes"
    /\ UNCHANGED <<tp, ca, aside>>

\* Lines 2593-2615.
EquivalentFtes ==
    /\ pc = "equivalent_ftes"
    /\ LET total_operational_savings_from_time_saved ==
               RSum(<<loc.alert_savings.reduction_savings, loc.alert_savings.triage_savings,
                      loc.incident_savings.reduction_savings,
                      loc.incident_savings.triage_savings, loc.major_incident_savings>>)
           effective_avg_fte_salary ==
               IF session.avg_alert_fte_salary > 0 /\ session.avg_incident_fte_salary > 0
               THEN Frac(session.avg_alert_fte_salary + session.avg_incident_fte_salary, 2)
               ELSE IF session.avg_alert_fte_salary > 0 THEN R(session.avg_alert_fte_salary)
               ELSE IF session.avg_incident_fte_salary > 0 THEN R(session.avg_incident_fte_salary)
               ELSE Zero
           equivalent_ftes_from_savings ==
               IF RLt(Zero, effective_avg_fte_salary)
               THEN RDiv(total_operational_savings_from_time_saved, effective_avg_fte_salary)
               ELSE Zero
       IN  /\ loc' = [loc EXCEPT
                        !.total_operational_savings_from_time_saved =
                            total_operational_savings_from_time_saved,
                        !.equivalent_ftes_from_savings = equivalent_ftes_from_savings]
           /\ session' =
                 [session EXCEPT
                    !.keys = @ \cup {"total_operational_savings_from_time_saved",
                                     "equivalent_ftes_from_savings"},
                    !.total_operational_savings_from_time_saved =
                        total_operational_savings_from_time_saved,
                    !.equivalent_ftes_from_savings = equivalent_ftes_from_savings]
    /\ pc' = "payback"
    /\ UNCHANGED <<tp, ca, aside>>

\* Line 2621.
scenario_annual_benefits_for_payback(scenario_name, total) ==
    RMul(total, scenarios[scenario_name].benefits_multiplier)

\* Line 2622.
scenario_impl_delay_for_payback(scenario_name, ss) ==
    Max(0, PyInt(RMul(R(ss.implementation_delay),
                      scenarios[scenario_name].implementation_delay_multiplier)))

\* Lines 2624-2632: the call of calculate_payback_months for one scenario.
scenario_payback_months(scenario_name, total, ss) ==
    calculate_payback_months(scenario_annual_benefits_for_payback(scenario_name, total),
        ss.platform_cost, ss.services_cost, scenario_impl_delay_for_payback(scenario_name, ss),
        ss.benefits_ramp_up, ss.billing_start_month, ss.evaluation_years * 12)

\* Lines 2617-2632: payback_months is written into the result dictionaries,
\* which are the very objects published under 'scenario_results'.
\* Lines 2619-2632 for one scenario: the result dictionary with its
\* payback_months entry, and the locals calculate_payback_months returned with.
with_payback_months(s_result, returned) ==
    [result |-> [s_result EXCEPT !.payback_months = returned.payback_month,
                                 !.has_payback_months = TRUE],
     locals |-> [cumulative_cash_flow |-> returned.cumulative_cash_flow,
                 month |-> returned.month]]

update_scenario(scenario_name, scenario_results, total, ss) ==
    with_payback_months(scenario_results[scenario_name],
                        scenario_payback_months(scenario_name, total, ss))

UpdatePaybackMonths ==
    /\ pc = "payback"
    /\ LET c == update_scenario("Conservative", loc.scenario_results,
                                loc.total_annual_benefits, session)
           e == update_scenario("Expected", loc.scenario_results,
                                loc.total_annual_benefits, session)
           o == update_scenario("Optimistic", loc.scenario_results,
                                loc.total_annual_benefits, session)
       IN  loc' = [loc EXCEPT
                     !.scenario_results =
                         [Conservative |-> c.result, Expected |-> e.result,
                          Optimistic |-> o.result],
                     !.payback_locals =
                         [Conservative |-> c.locals, Expected |-> e.locals,
                          Optimistic |-> o.locals]]
    /\ session' = [session EXCEPT !.scenario_results = loc'.scenario_results]
    /\ pc' = "done"
    /\ UNCHANGED <<tp, ca, aside>>

Next ==
    \/ AllocateCosts
    \/ ComputeSavings
    \/ ComputeScenarios
    \/ EquivalentFtes
    \/ UpdatePaybackMonths

Spec == Init /\ [][Next]_vars

ScenarioSet == {"Conservative", "Expected", "Optimistic"}

ScenariosComputed == pc = "equivalent_ftes"

YearMonths(y) == ((y - 1) * 12 + 1)..(y * 12)

RECURSIVE SumBenefitFactors(_, _, _, _)
SumBenefitFactors(from, to, delay, ramp) ==
    IF from > to THEN Zero
    ELSE RAdd(calculate_benefit_realization_factor(from, delay, ramp),
              SumBenefitFactors(from + 1, to, delay, ramp))

\* C8: calculate_scenario_results produces exactly one cash-flow entry per
\* evaluation year 1..evaluation_years, in order, with benefits = scenario
\* benefits * mean of the year's 12 monthly benefit factors, platform cost =
\* platform cost * mean of the year's 12 monthly cost factors, services cost
\* in year 1 only, net cash flow = benefits - platform cost - services cost,
\* and both averaged factors within [0,1].
C8_YearlyCashFlows ==
    ScenariosComputed =>
        \A name \in ScenarioSet :
            LET res == loc.scenario_results[name]
                cfs == res.cash_flows
            IN  /\ res.annual_benefits =
                      RMul(loc.total_annual_benefits, scenarios[name].benefits_multiplier)
                /\ Len(cfs) = session.evaluation_years
                /\ \A y \in 1..Len(cfs) :
                      /\ cfs[y].year = y
                      /\ RMul(cfs[y].benefit_realization_factor, R(12)) =
                            SumBenefitFactors((y - 1) * 12 + 1, y * 12, res.impl_delay,
                                              session.benefits_ramp_up)
                      /\ RMul(cfs[y].cost_factor, R(12)) =
                            R(Cardinality({m \in YearMonths(y) : m >= session.billing_start_month}))
                      /\ cfs[y].benefits =
                            RMul(res.annual_benefits, cfs[y].benefit_realization_factor)
                      /\ cfs[y].platform_cost =
                            RMul(R(session.platform_cost), cfs[y].cost_factor)
                      /\ cfs[y].services_cost =
                            IF y = 1 THEN R(session.services_cost) ELSE Zero
                      /\ cfs[y].net_cash_flow =
                            RSub(RSub(cfs[y].benefits, cfs[y].platform_cost),
                                 cfs[y].services_cost)
                      /\ RLe(Zero, cfs[y].benefit_realization_factor)
                      /\ RLe(cfs[y].benefit_realization_factor, One)
                      /\ RLe(Zero, cfs[y].cost_factor)
                      /\ RLe(cfs[y].cost_factor, One)

C8_Witness ==
    /\ ScenariosComputed
    /\ session.evaluation_years = 3
    /\ LET cfs == loc.scenario_results["Expected"].cash_flows
       IN  /\ Len(cfs) = 3
           /\ cfs[1].services_cost = R(600)
           /\ cfs[2].services_cost = Zero
           /\ RLt(Zero, cfs[1].benefit_realization_factor)
           /\ RLt(cfs[1].benefit_realization_factor, One)
           /\ cfs[2].benefit_realization_factor = One
           /\ RLt(Zero, cfs[1].benefits)
           /\ cfs[1].cost_factor = Zero
           /\ cfs[2].cost_factor = One
           /\ RLt(Zero, cfs[2].platform_cost)

RECURSIVE CumulativeNet(_, _)
CumulativeNet(cfs, y) ==
    IF y = 0 THEN Zero ELSE RAdd(CumulativeNet(cfs, y - 1), cfs[y].net_cash_flow)

\* The cumulative cash flow of the monthly accumulation at the end of each of
\* the years year..years, starting from `cumulative` at the end of year - 1.
RECURSIVE YearEndCumulatives(_, _, _, _, _)
YearEndCumulatives(year, years, cumulative, name, total) ==
    IF year > years THEN <<>>
    ELSE LET at_year_end ==
                 payback_cumulative(cumulative, 12 * (year - 1) + 1, 12 * year,
                     scenario_annual_benefits_for_payback(name, total),
                     session.platform_cost,
                     scenario_impl_delay_for_payback(name, session),
                     session.benefits_ramp_up, session.billing_start_month)
         IN  <<at_year_end>> \o YearEndCumulatives(year + 1, years, at_year_end, name, total)

Growth == Frac(100 + session.discount_rate, 100)

RECURSIVE CompoundedNet(_, _, _)
CompoundedNet(cfs, y, years) ==
    IF y = 0 THEN Zero
    ELSE RAdd(CompoundedNet(cfs, y - 1, years),
              RMul(cfs[y].net_cash_flow, RPow(Growth, years - y)))

\* C10: the NPV of a scenario is the sum over years y = 1..N of
\* net_cash_flow_y / (1 + discount_rate)^y, the first year being discounted
\* once; three yearly net cash flows of 100000 at 10% give 248685.2 +- 0.1.
C10_Npv ==
    ScenariosComputed =>
        \A name \in ScenarioSet :
            LET res == loc.scenario_results[name]
                cfs == res.cash_flows
                years == Len(cfs)
            IN  /\ ~IsError(res.npv)
                /\ RMul(res.npv, RPow(Growth, years)) = CompoundedNet(cfs, years, years)
                /\ (/\ years = 3
                    /\ session.discount_rate = 10
                    /\ \A y \in 1..3 : cfs[y].net_cash_flow = R(100000)) =>
                       /\ res.npv.n \div res.npv.d = 248685
                       /\ 10 * Abs(5 * (res.npv.n % res.npv.d) - res.npv.d) <= 5 * res.npv.d

C10_Witness ==
    /\ ScenariosComputed
    /\ session.discount_rate = 10
    /\ LET res == loc.scenario_results["Expected"]
       IN  /\ Len(res.cash_flows) = 3
           /\ \A y \in 1..3 : res.cash_flows[y].net_cash_flow = R(100000)
           /\ res.npv = Frac(331000000, 1331)

\* Sum over the years 1..y of platform cost plus services cost, undiscounted.
RECURSIVE TotalCosts(_, _)
TotalCosts(cfs, y) ==
    IF y = 0 THEN Zero
    ELSE RAdd(TotalCosts(cfs, y - 1), RAdd(cfs[y].platform_cost, cfs[y].services_cost))

\* Sum over the years 1..y of (platform cost + services cost) / (1 + rate)^year.
RECURSIVE TotalDiscountedCosts(_, _)
TotalDiscountedCosts(cfs, y) ==
    IF y = 0 THEN Zero
    ELSE RAdd(TotalDiscountedCosts(cfs, y - 1),
              RDiv(RAdd(cfs[y].platform_cost, cfs[y].services_cost), RPow(Growth, y)))

\* C11 as stated: the ROI percentage (the stored ratio times 100) of every
\* scenario equals NPV / total_discounted_costs * 100, and is 0 when the
\* discounted costs are 0.
C11_AsStated ==
    ScenariosComputed =>
        \A name \in ScenarioSet :
            LET res == loc.scenario_results[name]
                total_discounted_costs ==
                    TotalDiscountedCosts(res.cash_flows, Len(res.cash_flows))
            IN  IF total_discounted_costs = Zero
                THEN res.roi = Zero
                ELSE RMul(res.roi, total_discounted_costs) = res.npv

\* C11 (amended): the roi of every scenario is the ratio NPV / total costs,
\* where total costs is the undiscounted sum over the years of platform cost
\* plus services cost (the percentage shown is that ratio times 100), and the
\* roi is 0 when that sum is 0.
C11_Roi ==
    ScenariosComputed =>
        \A name \in ScenarioSet :
            LET res == loc.scenario_results[name]
                total_costs == TotalCosts(res.cash_flows, Len(res.cash_flows))
            IN  /\ ~IsError(res.roi)
                /\ IF total_costs = Zero
                   THEN res.roi = Zero
                   ELSE res.roi = RDiv(res.npv, total_costs)

C11_Witness ==
    /\ ScenariosComputed
    /\ session.discount_rate = 10
    /\ session.platform_cost = 120
    /\ session.services_cost = 600
    /\ LET res == loc.scenario_results["Expected"]
           total_costs == TotalCosts(res.cash_flows, Len(res.cash_flows))
       IN  /\ RLt(Zero, total_costs)
           /\ RLt(Zero, res.npv)
           /\ res.roi = RDiv(res.npv, total_costs)
           /\ RLt(TotalDiscountedCosts(res.cash_flows, Len(res.cash_flows)), total_costs)

\* The cumulative cash flows C(month), ..., C(last_month) of the month-by-month
\* rule, C(month - 1) being `cumulative`: each month adds
\* (annual_benefits / 12) * benefit factor - (annual_platform_cost / 12) * cost factor.
RECURSIVE CumulativeByMonth(_, _, _, _, _, _, _, _)
CumulativeByMonth(month, last_month, cumulative, annual_benefits, annual_platform_cost, delay, ramp, billing) ==
    IF month > last_month THEN <<>>
    ELSE LET c == RAdd(cumulative,
                       RSub(RMul(RDiv(annual_benefits, R(12)),
                                 calculate_benefit_realization_factor(month, delay, ramp)),
                            RMul(Frac(annual_platform_cost, 12),
                                 calculate_platform_cost_factor(month, billing))))
         IN  <<c>> \o CumulativeByMonth(month + 1, last_month, c, annual_benefits,
                                        annual_platform_cost, delay, ramp, billing)

PaybackRule(name) ==
    CumulativeByMonth(1, session.evaluation_years * 12, RNeg(R(session.services_cost)),
        RMul(loc.total_annual_benefits, scenarios[name].benefits_multiplier),
        session.platform_cost, loc.scenario_results[name].impl_delay,
        session.benefits_ramp_up, session.billing_start_month)

\* C12: for every scenario of a finished pass, calculate_payback_months
\* processed at most max_months_eval = evaluation_years * 12 months and
\* returned the smallest month m of 1..max_months_eval whose cumulative cash
\* flow C(m) (minus the services cost once, plus the monthly net cash flows
\* 1..m) is >= 0, or the not-reached sentinel when no month of the horizon
\* has C(m) >= 0; benefits 120000, platform 0, services 50000, delay 0,
\* ramp 0, billing start 1 give month 5.
C12_PaybackMonths ==
    pc = "done" =>
        \A name \in ScenarioSet :
            LET max_months_eval == session.evaluation_years * 12
                C == PaybackRule(name)
                res == loc.scenario_results[name]
                final == loc.payback_locals[name]
            IN  /\ res.has_payback_months
                /\ final.month \in 1..max_months_eval
                /\ IF \E m \in 1..max_months_eval : RLe(Zero, C[m])
                   THEN /\ ~res.payback_months.na
                        /\ res.payback_months.unit = "months"
                        /\ res.payback_months.n \in 1..max_months_eval
                        /\ RLe(Zero, C[res.payback_months.n])
                        /\ \A k \in 1..(res.payback_months.n - 1) : RLt(C[k], Zero)
                        /\ final.month = res.payback_months.n
                   ELSE /\ res.payback_months = NotReached
                        /\ final.month = max_months_eval
                /\ (/\ name = "Expected"
                    /\ loc.total_annual_benefits = R(120000)
                    /\ session.platform_cost = 0 /\ session.services_cost = 50000
                    /\ session.implementation_delay = 0 /\ session.benefits_ramp_up = 0
                    /\ session.billing_start_month = 1) =>
                       res.payback_months = Reached(5, "months")

C12_Witness ==
    /\ pc = "done"
    /\ loc.total_annual_benefits = R(120000)
    /\ session.services_cost = 50000
    /\ loc.scenario_results["Expected"].payback_months = Reached(5, "months")
    /\ loc.payback_locals["Expected"].cumulative_cash_flow = Zero
    /\ loc.scenario_results["Conservative"].payback_months = Reached(8, "months")

\* The multipliers the three scenarios are stated to use, in tenths.
BenefitTenths(name) ==
    IF name = "Conservative" THEN 7 ELSE IF name = "Expected" THEN 10 ELSE 12

DelayTenths(name) ==
    IF name = "Conservative" THEN 13 ELSE IF name = "Expected" THEN 10 ELSE 8

\* C13: each of the three scenario results is the projector run on the
\* baseline with only benefits and implementation delay changed:
\* Conservative benefits * 0.7 and delay * 1.3, Expected * 1.0 and * 1.0,
\* Optimistic * 1.2 and * 0.8, the delay truncated to whole months and never
\* below 0; ramp-up, billing start, platform cost, services cost, evaluation
\* years and discount rate are the baseline values; the result is stored
\* under the scenario's name.
C13_ScenarioMultipliers ==
    ScenariosComputed =>
        /\ "scenario_results" \in session.keys
        /\ DOMAIN session.scenario_results = ScenarioSet
        /\ \A name \in ScenarioSet :
              LET res == loc.scenario_results[name]
                  benefits == RMul(loc.total_annual_benefits, Frac(BenefitTenths(name), 10))
                  delay == (session.implementation_delay * DelayTenths(name)) \div 10
                  cfs == cash_flows_of_years(1, session.evaluation_years, benefits, delay,
                             session.benefits_ramp_up, session.billing_start_month,
                             session.platform_cost, session.services_cost)
              IN  /\ session.scenario_results[name] = res
                  /\ res.benefits_mult = Frac(BenefitTenths(name), 10)
                  /\ res.annual_benefits = benefits
                  /\ res.impl_delay = delay
                  /\ res.impl_delay >= 0
                  /\ res.cash_flows = cfs
                  /\ res.npv = scenario_npv(cfs, Frac(session.discount_rate, 100))
                  /\ res.payback = scenario_payback(cfs, 1, Zero)

C13_Witness ==
    /\ ScenariosComputed
    /\ session.implementation_delay = 10
    /\ session.benefits_ramp_up = 2
    /\ RLt(Zero, loc.total_annual_benefits)
    /\ loc.scenario_results["Conservative"].impl_delay = 13
    /\ loc.scenario_results["Expected"].impl_delay = 10
    /\ loc.scenario_results["Optimistic"].impl_delay = 8
    /\ RLt(loc.scenario_results["Conservative"].annual_benefits,
           loc.scenario_results["Expected"].annual_benefits)
    /\ RLt(loc.scenario_results["Expected"].annual_benefits,
           loc.scenario_results["Optimistic"].annual_benefits)
    /\ loc.scenario_results["Conservative"].cash_flows #
          loc.scenario_results["Expected"].cash_flows
    /\ session.scenario_results["Optimistic"] = loc.scenario_results["Optimistic"]

\* ------------------------------------------------------------------------
\* Specification of the scenario loop, one call at a time, with the list
\* objects the calls create
\* ------------------------------------------------------------------------
IndependenceSessions ==
    {WithWorkload([DefaultSession EXCEPT !.implementation_delay = dl, !.benefits_ramp_up = 2,
                                         !.billing_start_month = b, !.evaluation_years = y,
                                         !.discount_rate = 10, !.platform_cost = 120,
                                         !.services_cost = 600, !.tool_savings = 120], "all") :
        dl \in {0, 10}, b \in {1, 13}, y \in {1, 2}}

InitIndependence ==
    /\ tp = tpIdle
    /\ ca = caIdle
    /\ session \in IndependenceSessions
    /\ loc = NoLocals
    /\ pc = "costs"
    /\ AsideIdle

\* Slip: every call appends to one list shared by all calls (a module-level
\* list or a mutable default argument).
new_list_shared(h) == 1

\* Line 1518: scenario_cash_flows = [] creates a list object no other name
\* refers to.
new_list(h) ==
    CHOOSE address \in DOMAIN h :
        /\ ~h[address].allocated
        /\ \A other \in DOMAIN h : other < address => h[other].allocated

\* A scenario result as its holder sees it: the dictionary with the current
\* contents of the list its 'cash_flows' entry refers to.
Deref(name) == [scn.result[name] EXCEPT !.cash_flows = heap[scn.ref[name]].items]

\* Lines 2575-2581, one iteration, for any scenario not computed yet: the call
\* reads the session store, creates its list, appends the yearly entries to
\* it and returns a dictionary referring to it.
CallScenario ==
    /\ pc = "scenarios"
    /\ \E scenario_name \in ScenarioSet \ scn.computed :
          LET scenario_cash_flows == new_list(heap)
              returned == scenario_result_of(scenario_name, session)
          IN  /\ heap' = [heap EXCEPT ![scenario_cash_flows] =
                             [allocated |-> TRUE, items |-> @.items \o returned.cash_flows]]
              /\ scn' = [scn EXCEPT
                            !.computed = @ \cup {scenario_name},
                            !.ref[scenario_name] = scenario_cash_flows,
                            !.result[scenario_name] = [returned EXCEPT !.cash_flows = <<>>],
                            !.store = IF scn.computed = {} THEN session ELSE @]
    /\ UNCHANGED <<tp, ca, session, loc, pc, hist, mc, diag, io>>

\* A holder of one scenario's result empties that scenario's cash-flow list
\* in place.
MutateCashFlows ==
    /\ pc = "scenarios"
    /\ \E scenario_name \in scn.computed \ scn.mutated :
          /\ heap' = [heap EXCEPT ![scn.ref[scenario_name]].items = <<>>]
          /\ scn' = [scn EXCEPT !.mutated = @ \cup {scenario_name}]
    /\ UNCHANGED <<tp, ca, session, loc, pc, hist, mc, diag, io>>

NextIndependence ==
    \/ AllocateCosts
    \/ ComputeSavings
    \/ CallScenario
    \/ MutateCashFlows

SpecIndependence == InitIndependence /\ [][NextIndependence]_vars

\* C14: computing one scenario writes nothing another scenario reads: the
\* calls leave the session store as the first call found it, the cash-flow
\* lists of two computed scenarios are different objects, and the result of
\* every scenario whose own list was not mutated is what the projector gives
\* for that scenario on that store, whatever the order of the calls and
\* whichever other scenarios' lists were mutated afterwards.
C14_ScenarioIndependence ==
    /\ scn.computed # {} => session = scn.store
    /\ \A a, b \in scn.computed : a # b => scn.ref[a] # scn.ref[b]
    /\ \A name \in scn.computed \ scn.mutated :
          Deref(name) = scenario_result_of(name, scn.store)

C14_Witness ==
    /\ scn.computed = {"Conservative", "Expected", "Optimistic"}
    /\ scn.mutated = {"Conservative"}
    /\ scn.ref["Optimistic"] = 1
    /\ scn.ref["Expected"] = 3
    /\ heap[scn.ref["Conservative"]].items = <<>>
    /\ Len(heap[scn.ref["Expected"]].items) = 2
    /\ Deref("Expected") = scenario_result_of("Expected", session)
    /\ Deref("Expected").cash_flows # Deref("Optimistic").cash_flows

\* ------------------------------------------------------------------------
\* Specification of repeated passes: the script reruns on the same session
\* store after the user set the widgets
\* ------------------------------------------------------------------------
\* The parameter mapping of a pass: the values of the widgets.
Params(ss) == [key \in WidgetKeys |-> ss[key]]

RerunSessions ==
    {WithWorkload([DefaultSession EXCEPT !.implementation_delay = dl, !.benefits_ramp_up = 2,
                                         !.billing_start_month = 13, !.evaluation_years = 2,
                                         !.discount_rate = 10, !.platform_cost = 120,
                                         !.services_cost = 600, !.tool_savings = 120], w) :
        dl \in {0, 10}, w \in WorkloadProfiles}

InitRerun ==
    /\ tp = tpIdle
    /\ ca = caIdle
    /\ session \in RerunSessions
    /\ loc = NoLocals
    /\ pc = "costs"
    /\ AsideIdle

\* The end of a script run and the start of the next: the widgets take the
\* values the user set, every other key of the store keeps what the earlier
\* passes left in it, and the module-level names are unbound again.
Rerun ==
    /\ pc = "done"
    /\ hist.passes + 1 < MaxPasses
    /\ \E widgets \in RerunSessions :
          session' = [key \in DOMAIN session |->
                         IF key \in WidgetKeys THEN widgets[key] ELSE session[key]]
    /\ hist' = [passes |-> hist.passes + 1,
                done |-> hist.done \cup {[params |-> Params(session),
                                          results |-> loc.scenario_results]},
                last |-> Params(session)]
    /\ loc' = NoLocals
    /\ pc' = "costs"
    /\ UNCHANGED <<tp, ca, heap, scn, mc, diag, io>>

NextRerun ==
    \/ Next
    \/ Rerun

SpecRerun == InitRerun /\ [][NextRerun]_vars

\* C15: after any sequence of earlier passes, a finished pass has, for every
\* scenario, the same npv, roi, yearly payback, payback_months and cash_flows
\* as every earlier pass that ran with the same parameter mapping; what the
\* earlier passes left in the session store changes no scenario result.
C15_Idempotence ==
    pc = "done" =>
        \A earlier \in hist.done :
            earlier.params = Params(session) =>
                \A name \in ScenarioSet :
                    /\ loc.scenario_results[name].npv = earlier.results[name].npv
                    /\ loc.scenario_results[name].roi = earlier.results[name].roi
                    /\ loc.scenario_results[name].payback = earlier.results[name].payback
                    /\ loc.scenario_results[name].payback_months =
                          earlier.results[name].payback_months
                    /\ loc.scenario_results[name].cash_flows =
                          earlier.results[name].cash_flows

C15_Witness ==
    /\ pc = "done"
    /\ hist.passes = 2
    /\ hist.last # Params(session)
    /\ \E earlier \in hist.done :
          /\ earlier.params = Params(session)
          /\ earlier.results = loc.scenario_results
    /\ \E other \in hist.done :
          /\ other.params # Params(session)
          /\ other.results["Expected"].npv # loc.scenario_results["Expected"].npv
    /\ RLt(Zero, loc.scenario_results["Expected"].annual_benefits)

\* ------------------------------------------------------------------------
\* 4.7 Monte Carlo simulation (np.random and run_monte_carlo_simulation)
\* ------------------------------------------------------------------------
RMax(a, b) == IF RLe(b, a) THEN a ELSE b

RMin(a, b) == IF RLe(a, b) THEN a ELSE b

\* The generator of np.random is a deterministic function of its state: the
\* seed it was last given and the number of values drawn since. The table
\* stands for the standard normal deviates it produces.
Deviates == <<One, Frac(-1, 2), Zero, R(2), R(-1), Frac(1, 2), R(-2)>>

standard_normal(rng) == Deviates[((3 * rng.seed + rng.drawn) % Len(Deviates)) + 1]

\* np.random.normal(loc, scale): ValueError for a negative scale, before
\* anything is drawn.
normal(rng, mean, scale) ==
    IF RLt(scale, Zero)
    THEN [raised |-> TRUE, value |-> Zero, rng |-> rng]
    ELSE [raised |-> FALSE, value |-> RAdd(mean, RMul(scale, standard_normal(rng))),
          rng |-> [rng EXCEPT !.drawn = @ + 1]]

\* Slip: np.random.seed(42) is left out, the call draws from wherever the
\* generator stands.
seed_42_skipped(rng) == rng

\* Line 577: np.random.seed(42).
seed_42(rng) == [seed |-> 42, drawn |-> 0]

\* Lines 600-608: the simplified NPV of one trial over the years year..years.
RECURSIVE sim_npv_of_years(_, _, _, _, _, _)
sim_npv_of_years(year, evaluation_years, sim_total_benefits, sim_platform_cost, sim_services_cost, discount_rate) ==
    IF year > evaluation_years THEN Zero
    ELSE LET year_services_cost == IF year = 1 THEN sim_services_cost ELSE Zero
             year_net_cash_flow ==
                 RSub(RSub(sim_total_benefits, sim_platform_cost), year_services_cost)
         IN  RAdd(RDiv(year_net_cash_flow, RPow(RAdd(One, discount_rate), year)),
                  sim_npv_of_years(year + 1, evaluation_years, sim_total_benefits,
                                   sim_platform_cost, sim_services_cost, discount_rate))

\* An assignment: the right-hand side is evaluated once and the rest of the
\* block reads the value.
Assigned(value, Rest(_)) == CHOOSE out \in {Rest(v) : v \in {value}} : TRUE

\* Lines 583-588: the draws of one trial, one after the other on the same
\* generator; the first draw that raises ends them.
RECURSIVE draw_each(_, _)
draw_each(rng, params) ==
    IF params = <<>> THEN [raised |-> FALSE, values |-> <<>>, rng |-> rng]
    ELSE Assigned(normal(rng, Head(params)[1], Head(params)[2]),
           LAMBDA d :
             IF d.raised THEN [raised |-> TRUE, values |-> <<>>, rng |-> d.rng]
             ELSE Assigned(draw_each(d.rng, Tail(params)),
                    LAMBDA rest : [raised |-> rest.raised,
                                   values |-> <<d.value>> \o rest.values,
                                   rng |-> rest.rng]))

\* Lines 589-610: the trial's NPV and ROI from the six values drawn.
trial_results(values, session_state) ==
    LET evaluation_years == Get(session_state, "evaluation_years", 3)
        discount_rate == Frac(Get(session_state, "discount_rate", 10), 100)
        sim_alert_reduction == RMax(Zero, RMin(R(100), values[1]))
        sim_incident_reduction == RMax(Zero, RMin(R(100), values[2]))
        sim_mttr_improvement == RMax(Zero, RMin(R(100), values[3]))
        sim_platform_cost == RMax(Zero, values[5])
        sim_services_cost == RMax(Zero, values[6])
        sim_alert_savings ==
            RMul(RDiv(RMul(R(Get(session_state, "alert_volume", 0)), sim_alert_reduction),
                      R(100)),
                 Get(session_state, "cost_per_alert", Zero))
        sim_incident_savings ==
            RMul(RDiv(RMul(R(Get(session_state, "incident_volume", 0)),
                           sim_incident_reduction), R(100)),
                 Get(session_state, "cost_per_incident", Zero))
        sim_mttr_savings ==
            RMul(RMul(RMul(R(Get(session_state, "major_incident_volume", 0)),
                           RDiv(sim_mttr_improvement, R(100))),
                      Get(session_state, "avg_mttr_hours", Zero)),
                 R(Get(session_state, "avg_major_incident_cost", 0)))
        sim_total_benefits ==
            RSum(<<sim_alert_savings, sim_incident_savings, sim_mttr_savings,
                   R(Get(session_state, "tool_savings", 0)),
                   R(Get(session_state, "people_efficiency", 0)),
                   R(Get(session_state, "fte_avoidance", 0)),
                   R(Get(session_state, "sla_penalty", 0)),
                   R(Get(session_state, "revenue_growth", 0)),
                   R(Get(session_state, "capex_savings", 0)),
                   R(Get(session_state, "opex_savings", 0))>>)
        sim_npv == sim_npv_of_years(1, evaluation_years, sim_total_benefits,
                                    sim_platform_cost, sim_services_cost, discount_rate)
        sim_total_costs == RAdd(RMul(sim_platform_cost, R(evaluation_years)), sim_services_cost)
        sim_roi == IF RLt(Zero, sim_total_costs)
                   THEN RMul(RDiv(sim_npv, sim_total_costs), R(100))
                   ELSE Zero
    IN  [roi |-> sim_roi, npv |-> sim_npv, benefits |-> sim_total_benefits]

\* Lines 583-588: the six values a trial draws.
trial_draws(rng, session_state) ==
    LET alert_reduction_pct == R(Get(session_state, "alert_reduction_pct", 0))
        incident_reduction_pct == R(Get(session_state, "incident_reduction_pct", 0))
        mttr_improvement_pct == R(Get(session_state, "mttr_improvement_pct", 0))
        implementation_delay_months == R(Get(session_state, "implementation_delay", 6))
        platform_cost == R(Get(session_state, "platform_cost", 0))
        services_cost == R(Get(session_state, "services_cost", 0))
    IN  draw_each(rng,
               <<<<alert_reduction_pct, RMul(alert_reduction_pct, Frac(2, 10))>>,
                 <<incident_reduction_pct, RMul(incident_reduction_pct, Frac(2, 10))>>,
                 <<mttr_improvement_pct, RMul(mttr_improvement_pct, Frac(2, 10))>>,
                 <<implementation_delay_months,
                   RMul(implementation_delay_months, Frac(15, 100))>>,
                 <<platform_cost, RMul(platform_cost, Frac(1, 10))>>,
                 <<services_cost, RMul(services_cost, Frac(15, 100))>>>>)

\* Lines 582-613: one iteration of the simulation loop.
simulate_trial(rng, session_state) ==
    Assigned(trial_draws(rng, session_state),
          LAMBDA drawn :
            IF drawn.raised
            THEN [raised |-> TRUE, roi |-> Zero, npv |-> Zero, benefits |-> Zero,
                  rng |-> drawn.rng]
            ELSE Assigned(trial_results(drawn.values, session_state),
                   LAMBDA sim : [raised |-> FALSE, roi |-> sim.roi, npv |-> sim.npv,
                                 benefits |-> sim.benefits, rng |-> drawn.rng]))

\* Lines 581-613: the simulation loop from iteration k on; an exception of a
\* draw ends the call.
RECURSIVE simulation_loop(_, _, _, _, _, _)
simulation_loop(k, n_simulations, rng, roi_results, npv_results, session_state) ==
    IF k > n_simulations
    THEN [raised |-> FALSE, roi_results |-> roi_results, npv_results |-> npv_results,
          rng |-> rng]
    ELSE Assigned(simulate_trial(rng, session_state),
           LAMBDA trial :
             IF trial.raised
             THEN [raised |-> TRUE, roi_results |-> <<>>, npv_results |-> <<>>,
                   rng |-> trial.rng]
             ELSE simulation_loop(k + 1, n_simulations, trial.rng,
                                  Append(roi_results, trial.roi),
                                  Append(npv_results, trial.npv), session_state))

run_monte_carlo_simulation(n_simulations, session_state, rng) ==
    simulation_loop(1, n_simulations, seed_42(rng), <<>>, <<>>, session_state)

\* ------------------------------------------------------------------------
\* Specification of a pass followed by Monte Carlo calls
\* ------------------------------------------------------------------------
MonteCarloSessions ==
    {WithWorkload([DefaultSession EXCEPT !.implementation_delay = dl, !.benefits_ramp_up = 2,
                                         !.billing_start_month = 1, !.evaluation_years = y,
                                         !.discount_rate = 10, !.platform_cost = pl,
                                         !.services_cost = sv, !.tool_savings = 120], "all") :
        dl \in {0, 10}, y \in {1, 2}, pl \in {-120, 0, 120}, sv \in {0, 600}}

\* States the generator can be in when the script starts (seeded by the
\* operating system).
StartSeeds == {7, 11}

InitMonteCarlo ==
    /\ tp = tpIdle
    /\ ca = caIdle
    /\ session \in MonteCarloSessions
    /\ loc = NoLocals
    /\ pc = "costs"
    /\ heap = EmptyHeap
    /\ scn = scnIdle
    /\ hist = histIdle
    /\ \E s \in StartSeeds : mc = [mcIdle EXCEPT !.rng.seed = s]
    /\ diag = diagIdle
    /\ io = ioIdle

\* Line 3142 with the number of trials as the function's parameter: the
\* button runs the simulation on the store the pass just filled.
RunMonteCarlo ==
    /\ pc = "done"
    /\ Len(mc.runs) < MaxRuns
    /\ \E n_simulations \in 1..MaxTrials :
          LET returned == run_monte_carlo_simulation(n_simulations, session, mc.rng)
          IN  mc' = [mc EXCEPT
                       !.rng = returned.rng,
                       !.runs = Append(@, [n_simulations |-> n_simulations,
                                           before |-> mc.rng,
                                           raised |-> returned.raised,
                                           roi_results |-> returned.roi_results,
                                           npv_results |-> returned.npv_results])]
    /\ UNCHANGED <<tp, ca, session, loc, pc, heap, scn, hist, diag, io>>

\* Any other use of np.random between two calls.
OtherDraw ==
    /\ pc = "done"
    /\ mc.other < MaxOtherDraws
    /\ mc' = [mc EXCEPT !.rng.drawn = @ + 1, !.other = @ + 1]
    /\ UNCHANGED <<tp, ca, session, loc, pc, heap, scn, hist, diag, io>>

NextMonteCarlo ==
    \/ Next
    \/ RunMonteCarlo
    \/ OtherDraw

SpecMonteCarlo == InitMonteCarlo /\ [][NextMonteCarlo]_vars

\* C16: two calls of run_monte_carlo_simulation on the same session inputs
\* with the same number of trials return identical ROI and NPV vectors, of
\* length the number of trials and equal value by value in order, whatever
\* the generator state each call started from.
C16_MonteCarloDeterminism ==
    \A i, j \in DOMAIN mc.runs :
        mc.runs[i].n_simulations = mc.runs[j].n_simulations =>
            /\ mc.runs[i].raised = mc.runs[j].raised
            /\ mc.runs[i].roi_results = mc.runs[j].roi_results
            /\ mc.runs[i].npv_results = mc.runs[j].npv_results
            /\ ~mc.runs[i].raised =>
                  /\ Len(mc.runs[i].roi_results) = mc.runs[i].n_simulations
                  /\ Len(mc.runs[i].npv_results) = mc.runs[i].n_simulations

C16_Witness ==
    /\ Len(mc.runs) = 2
    /\ mc.runs[1].n_simulations = 2
    /\ mc.runs[2].n_simulations = 2
    /\ ~mc.runs[1].raised
    /\ mc.runs[1].before.seed # 42
    /\ mc.runs[2].before.seed = 42
    /\ mc.runs[2].before.drawn > 12
    /\ mc.runs[1].roi_results = mc.runs[2].roi_results
    /\ mc.runs[1].roi_results[1] # mc.runs[1].roi_results[2]
    /\ mc.runs[1].npv_results[1] # mc.runs[1].npv_results[2]

\* ------------------------------------------------------------------------
\* 4.8 Diagnostics: red flags, warnings, data-quality score, health check
\* ------------------------------------------------------------------------
Finding(type, severity) == [type |-> type, severity |-> severity]

\* if cond: findings.append(finding)
AppendIf(cond, finding) == IF cond THEN <<finding>> ELSE <<>>

\* Slip: a cost equal to the threshold raises the finding (>= for >).
high_cost_per_alert_inclusive(cost_per_alert) == RLe(R(100), cost_per_alert)

\* Line 157.
high_cost_per_alert(cost_per_alert) == RLt(R(100), cost_per_alert)

\* Line 181.
high_cost_per_incident(cost_per_incident) == RLt(R(500), cost_per_incident)

\* Lines 206 and 227.
over_allocated(fte_percentage) == RLt(One, fte_percentage)

\* Lines 276 and 292.
very_low_utilization(fte_percentage) ==
    RLt(Zero, fte_percentage) /\ RLt(fte_percentage, Frac(1, 10))

\* Lines 249-250 (times == 3) and lines 124-125 (times == 2).
disproportionate_benefits(annual_benefits, alert_ftes, avg_alert_fte_salary, incident_ftes, avg_incident_fte_salary, times) ==
    LET total_fte_costs ==
            (alert_ftes * avg_alert_fte_salary) + (incident_ftes * avg_incident_fte_salary)
    IN  total_fte_costs > 0 /\ RLt(R(total_fte_costs * times), annual_benefits)

\* Lines 309-311.
unusual_ratio(alert_volume, incident_volume) ==
    /\ alert_volume > 0
    /\ incident_volume > 0
    /\ RLt(Frac(alert_volume, incident_volume), R(2))

detect_calculation_red_flags(session_state) ==
    LET cost_per_alert == Get(session_state, "cost_per_alert", Zero)
        cost_per_incident == Get(session_state, "cost_per_incident", Zero)
        alert_fte_percentage == Get(session_state, "alert_fte_percentage", Zero)
        incident_fte_percentage == Get(session_state, "incident_fte_percentage", Zero)
        annual_benefits == Get(session_state, "total_annual_benefits", Zero)
        alert_ftes == Get(session_state, "alert_ftes", 0)
        incident_ftes == Get(session_state, "incident_ftes", 0)
        avg_alert_fte_salary == Get(session_state, "avg_alert_fte_salary", 0)
        avg_incident_fte_salary == Get(session_state, "avg_incident_fte_salary", 0)
        alert_volume == Get(session_state, "alert_volume", 0)
        incident_volume == Get(session_state, "incident_volume", 0)
    IN  [red_flags |->
             AppendIf(high_cost_per_alert(cost_per_alert),
                      Finding("High Cost Per Alert", "high"))
             \o AppendIf(high_cost_per_incident(cost_per_incident),
                         Finding("High Cost Per Incident", "high"))
             \o AppendIf(over_allocated(alert_fte_percentage),
                         Finding("Over-allocated Alert FTEs", "critical"))
             \o AppendIf(over_allocated(incident_fte_percentage),
                         Finding("Over-allocated Incident FTEs", "critical"))
             \o AppendIf(disproportionate_benefits(annual_benefits, alert_ftes,
                             avg_alert_fte_salary, incident_ftes, avg_incident_fte_salary, 3),
                         Finding("Disproportionately High Benefits", "medium")),
         warnings |->
             AppendIf(very_low_utilization(alert_fte_percentage),
                      Finding("Very Low Alert FTE Utilization", "low"))
             \o AppendIf(very_low_utilization(incident_fte_percentage),
                         Finding("Very Low Incident FTE Utilization", "low"))
             \o AppendIf(unusual_ratio(alert_volume, incident_volume),
                         Finding("Unusual Alert-to-Incident Ratio", "medium"))]

\* len([f for f in findings if f['severity'] == severity])
CountSeverity(findings, severity) ==
    Cardinality({i \in DOMAIN findings : findings[i].severity = severity})

\* Lines 470-473: what the findings take off the score.
quality_penalties(red_flags, warnings) ==
    CountSeverity(red_flags, "critical") * 30
    + CountSeverity(red_flags, "high") * 20
    + CountSeverity(red_flags, "medium") * 10
    + Len(warnings) * 5

\* Slip: a critical finding costs what a high finding costs.
show_data_quality_score_critical_as_high(red_flags, warnings) ==
    Max(0, 100 - (quality_penalties(red_flags, warnings)
                  - CountSeverity(red_flags, "critical") * 10))

\* Lines 469-475: the score show_data_quality_score displays.
show_data_quality_score(red_flags, warnings) ==
    Max(0, 100 - quality_penalties(red_flags, warnings))

check_calculation_health(session_state) ==
    LET alert_fte_percentage == Get(session_state, "alert_fte_percentage", Zero)
        incident_fte_percentage == Get(session_state, "incident_fte_percentage", Zero)
        annual_benefits == Get(session_state, "total_annual_benefits", Zero)
        avg_alert_fte_salary == Get(session_state, "avg_alert_fte_salary", 0)
        alert_ftes == Get(session_state, "alert_ftes", 0)
        avg_incident_fte_salary == Get(session_state, "avg_incident_fte_salary", 0)
        incident_ftes == Get(session_state, "incident_ftes", 0)
    IN  AppendIf(over_allocated(alert_fte_percentage), "Alert management >100%")
        \o AppendIf(over_allocated(incident_fte_percentage), "Incident management >100%")
        \o AppendIf(disproportionate_benefits(annual_benefits, alert_ftes,
                        avg_alert_fte_salary, incident_ftes, avg_incident_fte_salary, 2),
                    "Total annual benefits exceed 2x total FTE costs")

\* ------------------------------------------------------------------------
\* 4.9 A pass followed by the health check and the reasoning dashboard
\* ------------------------------------------------------------------------
\* (volume, minutes per unit, FTEs) with 1880 working hours per FTE and a
\* salary of 6000: the cost per alert is 6000 / volume and the utilization
\* is volume * minutes / 60 / 1880.
AlertProfiles ==
    {<<0, 0, 0>>, <<1, 0, 0>>, <<60, 1880, 1>>, <<60, 2820, 1>>, <<50, 2820, 1>>,
     <<60, 188, 1>>, <<60, 1, 1>>, <<50, 1, 1>>}

IncidentProfiles ==
    {<<0, 0, 0>>, <<1, 0, 0>>, <<12, 9400, 1>>, <<12, 14100, 1>>, <<10, 14100, 1>>,
     <<12, 940, 1>>, <<10, 1, 1>>, <<30, 1, 1>>}

DiagnosticBenefits == {0, 24000, 24001, 36000, 36001}

DiagnosticSessions ==
    {[DefaultSession EXCEPT !.alert_volume = a[1], !.avg_alert_triage_time = a[2],
                            !.alert_ftes = a[3], !.avg_alert_fte_salary = 6000,
                            !.incident_volume = i[1], !.avg_incident_triage_time = i[2],
                            !.incident_ftes = i[3], !.avg_incident_fte_salary = 6000,
                            !.tool_savings = ts, !.evaluation_years = 1,
                            !.discount_rate = 0] :
        a \in AlertProfiles, i \in IncidentProfiles, ts \in DiagnosticBenefits}

InitDiagnostics ==
    /\ tp = tpIdle
    /\ ca = caIdle
    /\ session \in DiagnosticSessions
    /\ loc = NoLocals
    /\ pc = "costs"
    /\ AsideIdle

\* Lines 2639 and 2677: the health check of the main area, then the
\* dashboard with its findings and its data-quality score.
Diagnose ==
    /\ pc = "done"
    /\ ~diag.done
    /\ LET found == detect_calculation_red_flags(session)
       IN  diag' = [done |-> TRUE,
                    red_flags |-> found.red_flags,
                    warnings |-> found.warnings,
                    score |-> show_data_quality_score(found.red_flags, found.warnings),
                    issues |-> check_calculation_health(session),
                    validation |-> diag.validation]
    /\ UNCHANGED <<tp, ca, session, loc, pc, heap, scn, hist, mc, io>>

NextDiagnostics == Next \/ Diagnose

SpecDiagnostics == InitDiagnostics /\ [][NextDiagnostics]_vars

\* Findings of one type in a list, and the list without them.
OfType(findings, type) == {i \in DOMAIN findings : findings[i].type = type}

Without(findings, type) == SelectSeq(findings, LAMBDA f : f.type # type)

OverAllocation ==
    [alert |-> [type |-> "Over-allocated Alert FTEs", key |-> "alert_fte_percentage"],
     incident |-> [type |-> "Over-allocated Incident FTEs", key |-> "incident_fte_percentage"]]

\* C17 as stated: an over-allocated category has exactly one critical finding,
\* an in-budget category has none, and the score is exactly 30 below the score
\* of the same findings without that one.
C17_AsStated ==
    diag.done =>
        \A c \in DOMAIN OverAllocation :
            LET hits == OfType(diag.red_flags, OverAllocation[c].type)
                rest == Without(diag.red_flags, OverAllocation[c].type)
            IN  IF RLt(One, session[OverAllocation[c].key])
                THEN /\ Cardinality(hits) = 1
                     /\ \A i \in hits : diag.red_flags[i].severity = "critical"
                     /\ show_data_quality_score(rest, diag.warnings) - diag.score = 30
                ELSE hits = {}

\* C17 (amended): an over-allocated category (utilization above 1.0) has
\* exactly one finding of its over-allocation type, of severity critical, and
\* a category at or below 1.0 has none; the finding takes 30 off the
\* unfloored score, so the displayed score is max(0, 100 - penalties of the
\* other findings - 30), which is less than 30 below when the floor is hit.
C17_OverAllocation ==
    diag.done =>
        \A c \in DOMAIN OverAllocation :
            LET hits == OfType(diag.red_flags, OverAllocation[c].type)
                rest == Without(diag.red_flags, OverAllocation[c].type)
            IN  IF RLt(One, session[OverAllocation[c].key])
                THEN /\ Cardinality(hits) = 1
                     /\ \A i \in hits : diag.red_flags[i].severity = "critical"
                     /\ diag.score =
                            Max(0, 100 - quality_penalties(rest, diag.warnings) - 30)
                ELSE hits = {}

\* Alert utilization 1.25 with incident over-allocation, both high costs and
\* disproportionate benefits: the other findings leave 20, the score is 0.
C17_Witness ==
    /\ diag.done
    /\ session.alert_fte_percentage = Frac(5, 4)
    /\ Cardinality(OfType(diag.red_flags, "Over-allocated Alert FTEs")) = 1
    /\ show_data_quality_score(Without(diag.red_flags, "Over-allocated Alert FTEs"),
                               diag.warnings) = 20
    /\ diag.score = 0

\* What the stated table charges a finding of a given severity.
StatedPenalty ==
    [critical |-> 30, high |-> 20, medium |-> 10, low |-> 5]

RECURSIVE StatedPenalties(_)
StatedPenalties(findings) ==
    IF findings = <<>> THEN 0
    ELSE StatedPenalty[Head(findings).severity] + StatedPenalties(Tail(findings))

\* C18 as stated: the score lies in 0..100 and is 100 minus the penalty of
\* each finding by its severity (critical 30, high 20, medium 10, warning 5),
\* floored at 0; in particular the medium 'unusual alert-to-incident ratio'
\* finding costs 10.
C18_AsStated ==
    diag.done =>
        /\ diag.score \in 0..100
        /\ diag.score = Max(0, 100 - StatedPenalties(diag.red_flags \o diag.warnings))

Has(findings, type, severity) ==
    \E i \in DOMAIN findings : findings[i] = Finding(type, severity)

TotalFteCosts ==
    (session.alert_ftes * session.avg_alert_fte_salary)
    + (session.incident_ftes * session.avg_incident_fte_salary)

\* C19: after a pass, each diagnostic rule has fired exactly when its own
\* threshold holds on the computed state: a high finding iff cost_per_alert >
\* 100, and iff cost_per_incident > 500 (equality raises nothing); a low
\* under-utilization warning iff 0 < utilization < 0.1; a medium
\* disproportionate-benefits finding iff total FTE costs > 0 and benefits >
\* 3 x FTE costs (2 x for the issue of check_calculation_health); a medium
\* unusual-ratio finding iff both volumes > 0 and alert_volume /
\* incident_volume < 2.
C19_RulesFire ==
    diag.done =>
        /\ Has(diag.red_flags, "High Cost Per Alert", "high")
               <=> RLt(R(100), session.cost_per_alert)
        /\ Has(diag.red_flags, "High Cost Per Incident", "high")
               <=> RLt(R(500), session.cost_per_incident)
        /\ Has(diag.warnings, "Very Low Alert FTE Utilization", "low")
               <=> (RLt(Zero, session.alert_fte_percentage)
                    /\ RLt(session.alert_fte_percentage, Frac(1, 10)))
        /\ Has(diag.warnings, "Very Low Incident FTE Utilization", "low")
               <=> (RLt(Zero, session.incident_fte_percentage)
                    /\ RLt(session.incident_fte_percentage, Frac(1, 10)))
        /\ Has(diag.red_flags, "Disproportionately High Benefits", "medium")
               <=> (TotalFteCosts > 0
                    /\ RLt(R(3 * TotalFteCosts), session.total_annual_benefits))
        /\ (\E i \in DOMAIN diag.issues :
                diag.issues[i] = "Total annual benefits exceed 2x total FTE costs")
               <=> (TotalFteCosts > 0
                    /\ RLt(R(2 * TotalFteCosts), session.total_annual_benefits))
        /\ Has(diag.warnings, "Unusual Alert-to-Incident Ratio", "medium")
               <=> (session.alert_volume > 0 /\ session.incident_volume > 0
                    /\ session.alert_volume < 2 * session.incident_volume)
        /\ \A type \in {diag.red_flags[i].type : i \in DOMAIN diag.red_flags}
                     \cup {diag.warnings[i].type : i \in DOMAIN diag.warnings} :
               Cardinality(OfType(diag.red_flags, type))
               + Cardinality(OfType(diag.warnings, type)) = 1

\* A cost per alert of exactly 100 and benefits of exactly 3 x FTE costs
\* raise nothing, next to a cost per incident of 600 that raises its finding
\* and the 2 x issue of the health check.
C19_Witness ==
    /\ diag.done
    /\ session.cost_per_alert = R(100)
    /\ ~Has(diag.red_flags, "High Cost Per Alert", "high")
    /\ session.cost_per_incident = R(600)
    /\ Has(diag.red_flags, "High Cost Per Incident", "high")
    /\ session.total_annual_benefits = R(3 * TotalFteCosts)
    /\ TotalFteCosts > 0
    /\ ~Has(diag.red_flags, "Disproportionately High Benefits", "medium")
    /\ Len(diag.issues) > 0

\* ------------------------------------------------------------------------
\* 4.10 Input validation ahead of the pass
\* ------------------------------------------------------------------------
Message(text, args) == [text |-> text, args |-> args]

\* Lines 33-102: the warnings and the errors of validate_inputs, in the order
\* the code appends them.
validate_inputs(session_state) ==
    LET platform_cost == Get(session_state, "platform_cost", 0)
        services_cost == Get(session_state, "services_cost", 0)
        alert_reduction_pct == Get(session_state, "alert_reduction_pct", 0)
        incident_reduction_pct == Get(session_state, "incident_reduction_pct", 0)
        mttr_improvement_pct == Get(session_state, "mttr_improvement_pct", 0)
        alert_volume == Get(session_state, "alert_volume", 0)
        alert_ftes == Get(session_state, "alert_ftes", 0)
        incident_volume == Get(session_state, "incident_volume", 0)
        incident_ftes == Get(session_state, "incident_ftes", 0)
        working_hours == Get(session_state, "working_hours_per_fte_per_year", R(2000))
        avg_alert_triage_time == Get(session_state, "avg_alert_triage_time", 0)
        avg_incident_triage_time == Get(session_state, "avg_incident_triage_time", 0)
        billing_start_month == Get(session_state, "billing_start_month", 1)
        implementation_delay_months == Get(session_state, "implementation_delay", 6)
        benefits_ramp_up_months == Get(session_state, "benefits_ramp_up", 3)
        evaluation_years == Get(session_state, "evaluation_years", 3)
    IN  [errors |->
             AppendIf(platform_cost < 0, Message("Platform cost cannot be negative", <<>>))
             \o AppendIf(services_cost < 0,
                         Message("Services cost cannot be negative", <<>>))
             \o AppendIf(billing_start_month > evaluation_years * 12,
                         Message("Billing start month is beyond evaluation period",
                                 <<billing_start_month, evaluation_years * 12>>)),
         warnings |->
             AppendIf(alert_reduction_pct > 90,
                      Message("Alert reduction >90% may be unrealistic", <<>>))
             \o AppendIf(incident_reduction_pct > 90,
                         Message("Incident reduction >90% may be unrealistic", <<>>))
             \o AppendIf(mttr_improvement_pct > 80,
                         Message("MTTR improvement >80% may be unrealistic", <<>>))
             \o AppendIf(platform_cost = 0 /\ services_cost = 0,
                         Message("Both platform and services costs are zero", <<>>))
             \o AppendIf(alert_volume > 0 /\ alert_ftes = 0,
                         Message("Alert volume but no FTEs assigned to alerts", <<>>))
             \o AppendIf(incident_volume > 0 /\ incident_ftes = 0,
                         Message("Incident volume but no FTEs assigned to incidents", <<>>))
             \o AppendIf(RLt(working_hours, R(1000)),
                         Message("Working hours per FTE seems very low", <<>>))
             \o AppendIf(RLt(R(3000), working_hours),
                         Message("Working hours per FTE seems very high", <<>>))
             \o AppendIf(alert_volume > 0 /\ avg_alert_triage_time = 0,
                         Message("Alert volume exists but triage time is zero", <<>>))
             \o AppendIf(incident_volume > 0 /\ avg_incident_triage_time = 0,
                         Message("Incident volume exists but triage time is zero", <<>>))
             \o AppendIf(billing_start_month < implementation_delay_months,
                         Message("Platform costs are paid before benefits start",
                                 <<billing_start_month, implementation_delay_months + 1>>))
             \o AppendIf(billing_start_month
                            > implementation_delay_months + benefits_ramp_up_months,
                         Message("Billing starts after full benefits realization",
                                 <<billing_start_month,
                                   implementation_delay_months + benefits_ramp_up_months>>))]

\* Negative costs, a billing start beyond the horizon, and sound inputs.
ValidationSessions ==
    {WithWorkload([DefaultSession EXCEPT !.implementation_delay = dl, !.benefits_ramp_up = 2,
                                         !.billing_start_month = b, !.evaluation_years = y,
                                         !.discount_rate = 10, !.platform_cost = pl,
                                         !.services_cost = sv, !.tool_savings = 120], w) :
        dl \in {0, 10}, b \in {1, 13}, y \in {1, 2}, pl \in {-120, 0, 120},
        sv \in {-600, 0, 600}, w \in WorkloadProfiles}

InitValidation ==
    /\ tp = tpIdle
    /\ ca = caIdle
    /\ session \in ValidationSessions
    /\ loc = NoLocals
    /\ pc = "validate"
    /\ AsideIdle

\* Lines 2458-2471: the sidebar shows the errors and the warnings, and the
\* script goes on to the calculations whatever they are.
ValidateInputs ==
    /\ pc = "validate"
    /\ LET returned == validate_inputs(session)
       IN  diag' = [diag EXCEPT !.validation = [done |-> TRUE,
                                               warnings |-> returned.warnings,
                                               errors |-> returned.errors]]
    /\ pc' = "costs"
    /\ UNCHANGED <<tp, ca, session, loc, heap, scn, hist, mc, io>>

NextValidation ==
    \/ ValidateInputs
    \/ Next
    \/ RunMonteCarlo

SpecValidation == InitValidation /\ [][NextValidation]_vars

InputError ==
    [platform |-> session.platform_cost < 0,
     services |-> session.services_cost < 0,
     billing |-> session.billing_start_month > session.evaluation_years * 12]

Reported(text) ==
    \E i \in DOMAIN diag.validation.errors : diag.validation.errors[i].text = text

\* C20 as stated: with a negative platform cost, a negative services cost or
\* a billing start month beyond evaluation_years * 12, validate_inputs
\* reports the corresponding error and nothing the pass offers raises: a
\* requested Monte Carlo simulation returns its results.
C20_AsStated ==
    diag.validation.done =>
        /\ InputError.platform => Reported("Platform cost cannot be negative")
        /\ InputError.services => Reported("Services cost cannot be negative")
        /\ InputError.billing
              => Reported("Billing start month is beyond evaluation period")
        /\ (InputError.platform \/ InputError.services \/ InputError.billing)
              => \A i \in DOMAIN mc.runs : ~mc.runs[i].raised

\* ------------------------------------------------------------------------
\* 4.11 A pass and the simulation on inputs that put denominators at zero
\* ------------------------------------------------------------------------
\* Non-negative inputs with each of volume, FTEs, allocated time, salaries,
\* discovery cycles, ramp-up and costs at zero or above it.
GuardSessions ==
    {[DefaultSession EXCEPT
        !.alert_volume = v, !.incident_volume = v, !.asset_volume = 10,
        !.alert_ftes = f, !.incident_ftes = f, !.asset_management_ftes = f,
        !.alert_fte_time_pct = pct, !.incident_fte_time_pct = pct,
        !.asset_mgmt_fte_time_pct = pct,
        !.avg_alert_triage_time = 20, !.avg_incident_triage_time = 30,
        !.avg_alert_fte_salary = sa, !.avg_incident_fte_salary = si,
        !.avg_asset_mgmt_fte_salary = 240,
        !.alert_reduction_pct = 40, !.incident_reduction_pct = 100,
        !.alert_triage_time_saved_pct = 50,
        !.manual_discovery_cycles_per_year = cy, !.hours_per_discovery_cycle = 10,
        !.asset_discovery_automation_pct = 50,
        !.benefits_ramp_up = r, !.implementation_delay = 2,
        !.platform_cost = pl, !.services_cost = sv, !.tool_savings = 120,
        !.evaluation_years = 2, !.discount_rate = 10] :
        v \in {0, 100}, f \in {0, 1}, pct \in {0, 100}, sa \in {0, 300}, si \in {0, 120},
        cy \in {0, 4}, r \in {0, 2}, pl \in {0, 120}, sv \in {0, 600}}

InitGuards ==
    /\ tp = tpIdle
    /\ ca = caIdle
    /\ session \in GuardSessions
    /\ loc = NoLocals
    /\ pc = "costs"
    /\ AsideIdle

NextGuards == Next \/ RunMonteCarlo

SpecGuards == InitGuards /\ [][NextGuards]_vars

CostsAllocated == pc # "costs"

ScenariosPublished == pc \in {"equivalent_ftes", "payback", "done"}

FtesPublished == pc \in {"payback", "done"}

NoErrorIn(costs) ==
    /\ ~IsError(costs.cost_per_unit)
    /\ ~IsError(costs.total_cost)
    /\ ~IsError(costs.utilization)

\* C21: with non-negative inputs no division of a pass or of the simulation
\* meets a zero denominator (no value is a ZeroDivisionError and no
\* simulation call raises), and each guarded quotient is exactly 0 when its
\* denominator is 0: utilization with zero allocated FTE hours, cost per
\* unit with zero volume, scenario ROI and Monte Carlo ROI with zero total
\* cost, equivalent FTEs with zero effective salary.
C21_DegradeToZero ==
    /\ CostsAllocated =>
          /\ NoErrorIn(loc.alert) /\ NoErrorIn(loc.incident) /\ NoErrorIn(loc.discovery)
          /\ ~IsError(loc.asset_discovery_savings)
          /\ session.alert_ftes * session.alert_fte_time_pct = 0
                => loc.alert.utilization = Zero
          /\ session.incident_ftes * session.incident_fte_time_pct = 0
                => loc.incident.utilization = Zero
          /\ session.asset_management_ftes * session.asset_mgmt_fte_time_pct = 0
                => loc.discovery.utilization = Zero
          /\ session.alert_volume = 0 => loc.alert.cost_per_unit = Zero
          /\ session.incident_volume = 0 => loc.incident.cost_per_unit = Zero
          /\ session.manual_discovery_cycles_per_year = 0
                => loc.discovery.cost_per_unit = Zero
    /\ pc \notin {"costs", "savings"} => ~IsError(loc.total_annual_benefits)
    /\ ScenariosPublished =>
          \A name \in ScenarioSet :
              /\ ~IsError(loc.scenario_results[name].npv)
              /\ ~IsError(loc.scenario_results[name].roi)
              /\ \A i \in DOMAIN loc.scenario_results[name].cash_flows :
                     ~IsError(loc.scenario_results[name].cash_flows[i].net_cash_flow)
              /\ (session.platform_cost = 0 /\ session.services_cost = 0)
                    => loc.scenario_results[name].roi = Zero
    /\ FtesPublished =>
          /\ ~IsError(loc.equivalent_ftes_from_savings)
          /\ (session.avg_alert_fte_salary = 0 /\ session.avg_incident_fte_salary = 0)
                => loc.equivalent_ftes_from_savings = Zero
    /\ \A k \in DOMAIN mc.runs :
          /\ ~mc.runs[k].raised
          /\ \A t \in DOMAIN mc.runs[k].roi_results :
                 /\ ~IsError(mc.runs[k].roi_results[t])
                 /\ ~IsError(mc.runs[k].npv_results[t])
                 /\ (session.platform_cost = 0 /\ session.services_cost = 0)
                       => mc.runs[k].roi_results[t] = Zero

\* A finished pass and a simulation where every guarded denominator is zero
\* next to a positive numerator: work and FTEs with no allocated time,
\* salaries and discovery cycles at 0, benefits against no costs.
C21_Witness ==
    /\ pc = "done"
    /\ session.alert_volume > 0 /\ session.alert_ftes > 0
    /\ session.alert_fte_time_pct = 0
    /\ loc.alert.utilization = Zero
    /\ session.manual_discovery_cycles_per_year = 0
    /\ session.asset_management_ftes > 0
    /\ session.avg_alert_fte_salary = 0 /\ session.avg_incident_fte_salary = 0
    /\ loc.equivalent_ftes_from_savings = Zero
    /\ session.platform_cost = 0 /\ session.services_cost = 0
    /\ RLt(Zero, loc.scenario_results["Expected"].npv)
    /\ loc.scenario_results["Expected"].roi = Zero
    /\ Len(mc.runs) > 0
    /\ Len(mc.runs[1].roi_results) = MaxTrials
    /\ RLt(Zero, mc.runs[1].npv_results[1])
    /\ mc.runs[1].roi_results[1] = Zero

\* ------------------------------------------------------------------------
\* 4.12 Configuration codec: Python values, their text, and CSV
\* ------------------------------------------------------------------------
\* A text is the sequence of its characters. A Python value carries its type
\* and, by type, an integer n, an exact real q or a text s.
Value(type, n, q, s) == [type |-> type, n |-> n, q |-> q, s |-> s]

IntValue(n) == Value("int", n, Zero, <<>>)

FloatValue(q) == Value("float", 0, q, <<>>)

StrValue(s) == Value("str", 0, Zero, s)

NoneValue == Value("None", 0, Zero, <<>>)

DigitChars == <<"0", "1", "2", "3", "4", "5", "6", "7", "8", "9">>

IsDigit(c) == \E d \in DOMAIN DigitChars : DigitChars[d] = c

DigitValue(c) == (CHOOSE d \in DOMAIN DigitChars : DigitChars[d] = c) - 1

RPow10(k) == IF k >= 0 THEN RPow(R(10), k) ELSE RDiv(One, RPow(R(10), -k))

Pow10(k) == RPow(R(10), k).n

\* str(n) of a non-negative int.
RECURSIVE digits_of(_)
digits_of(n) ==
    IF n < 10 THEN <<DigitChars[n + 1]>>
    ELSE digits_of(n \div 10) \o <<DigitChars[(n % 10) + 1]>>

int_str(n) == IF n < 0 THEN <<"-">> \o digits_of(-n) ELSE digits_of(n)

RECURSIVE zeros(_)
zeros(k) == IF k <= 0 THEN <<>> ELSE <<"0">> \o zeros(k - 1)

\* The decimal exponent e of a positive real d * 10^e with one digit d.
Exponents == -6..2

ExponentOf(q) == CHOOSE e \in Exponents : \E d \in 1..9 : q = RMul(R(d), RPow10(e))

\* repr(float) for 0.0 and for reals d * 10^e of one significant digit:
\* positional notation for 1e-4 <= x < 1e16, exponent notation below.
float_str(q) ==
    IF q = Zero THEN <<"0", ".", "0">>
    ELSE LET sign == IF RLt(q, Zero) THEN <<"-">> ELSE <<>>
             a == IF RLt(q, Zero) THEN RNeg(q) ELSE q
             e == ExponentOf(a)
             d == RDiv(a, RPow10(e)).n
         IN  sign \o
             (IF e >= 0 THEN <<DigitChars[d + 1]>> \o zeros(e) \o <<".", "0">>
              ELSE IF e >= -4 THEN <<"0", ".">> \o zeros(-e - 1) \o <<DigitChars[d + 1]>>
              ELSE <<DigitChars[d + 1], "e", "-">> \o zeros(IF -e < 10 THEN 1 ELSE 0)
                   \o digits_of(-e))

None_str == <<"N", "o", "n", "e">>

\* str(value).
str(value) ==
    IF value.type = "int" THEN int_str(value.n)
    ELSE IF value.type = "float" THEN float_str(value.q)
    ELSE IF value.type = "None" THEN None_str
    ELSE value.s

\* text.strip() for blanks.
RECURSIVE lstrip(_)
lstrip(text) == IF text # <<>> /\ Head(text) = " " THEN lstrip(Tail(text)) ELSE text

RECURSIVE rstrip(_)
rstrip(text) ==
    IF text # <<>> /\ text[Len(text)] = " " THEN rstrip(SubSeq(text, 1, Len(text) - 1))
    ELSE text

strip(text) == rstrip(lstrip(text))

\* A run of digits, single underscores allowed between two digits.
IsDigitRun(text) ==
    /\ text # <<>>
    /\ \A i \in DOMAIN text :
          \/ IsDigit(text[i])
          \/ /\ text[i] = "_"
             /\ i > 1 /\ i < Len(text)
             /\ IsDigit(text[i - 1]) /\ IsDigit(text[i + 1])

OnlyDigits(text) == SelectSeq(text, IsDigit)

RECURSIVE number_of(_)
number_of(digits) ==
    IF digits = <<>> THEN 0
    ELSE number_of(SubSeq(digits, 1, Len(digits) - 1)) * 10 + DigitValue(digits[Len(digits)])

HasSign(text) == text # <<>> /\ Head(text) \in {"+", "-"}

Unsigned(text) == IF HasSign(text) THEN Tail(text) ELSE text

SignOf(text) == IF text # <<>> /\ Head(text) = "-" THEN -1 ELSE 1

Failed == [ok |-> FALSE, n |-> 0, q |-> Zero]

\* int(text): ValueError unless the text is an optionally signed digit run.
int(text) ==
    LET body == Unsigned(strip(text))
    IN  IF IsDigitRun(body)
        THEN [ok |-> TRUE, n |-> SignOf(strip(text)) * number_of(OnlyDigits(body)), q |-> Zero]
        ELSE Failed

FirstIndex(text, chars) ==
    IF \E i \in DOMAIN text : text[i] \in chars
    THEN CHOOSE i \in DOMAIN text : text[i] \in chars /\ \A j \in 1..(i - 1) : text[j] \notin chars
    ELSE 0

\* float(text) for decimal literals: [sign] digits [. digits] [e [sign] digits],
\* with the digits on one side of the point optional.
float(text) ==
    LET body == Unsigned(strip(text))
        epos == FirstIndex(body, {"e", "E"})
        mantissa == IF epos = 0 THEN body ELSE SubSeq(body, 1, epos - 1)
        exponent == IF epos = 0 THEN <<"0">> ELSE SubSeq(body, epos + 1, Len(body))
        dot == FirstIndex(mantissa, {"."})
        whole == IF dot = 0 THEN mantissa ELSE SubSeq(mantissa, 1, dot - 1)
        fraction == IF dot = 0 THEN <<>> ELSE SubSeq(mantissa, dot + 1, Len(mantissa))
        fraction_digits == OnlyDigits(fraction)
    IN  IF /\ whole \o fraction # <<>>
           /\ whole = <<>> \/ IsDigitRun(whole)
           /\ fraction = <<>> \/ IsDigitRun(fraction)
           /\ IsDigitRun(Unsigned(exponent))
        THEN [ok |-> TRUE, n |-> 0,
              q |-> RMul(RMul(R(SignOf(strip(text))),
                              Frac(number_of(OnlyDigits(whole)) * Pow10(Len(fraction_digits))
                                   + number_of(fraction_digits),
                                   Pow10(Len(fraction_digits)))),
                         RPow10(SignOf(exponent) * number_of(OnlyDigits(Unsigned(exponent)))))]
        ELSE Failed

\* Lines 1046-1056: the conversion of a cell of the Value column.
convert_value(cell) ==
    IF cell.type = "None" THEN StrValue(None_str)
    ELSE IF \E i \in DOMAIN cell.s : cell.s[i] = "."
         THEN IF float(cell.s).ok THEN FloatValue(float(cell.s).q) ELSE StrValue(cell.s)
         ELSE IF int(cell.s).ok THEN IntValue(int(cell.s).n) ELSE StrValue(cell.s)

(***************************************************************************)
(* 4.13 Configuration codec: the dictionaries, the CSV writer and reader   *)
(*                                                                         *)
(* A dict is the sequence of its <<key, value>> pairs in insertion order.  *)
(***************************************************************************)
dict_index(d, key) ==
    IF \E i \in DOMAIN d : d[i][1] = key THEN CHOOSE i \in DOMAIN d : d[i][1] = key ELSE 0

dict_has(d, key) == dict_index(d, key) # 0

dict_get(d, key) == d[dict_index(d, key)][2]

\* d[key] = value
dict_set(d, key, value) ==
    IF dict_has(d, key)
    THEN [d EXCEPT ![dict_index(d, key)] = <<key, value>>]
    ELSE Append(d, <<key, value>>)

dict_keys(d) == {d[i][1] : i \in DOMAIN d}

\* Texts the codec names.
Parameter == <<"P", "a", "r", "a", "m", "e", "t", "e", "r">>

ValueColumn == <<"V", "a", "l", "u", "e">>

Description == <<"D", "e", "s", "c", "r", "i", "p", "t", "i", "o", "n">>

solution_name == <<"s", "o", "l", "u", "t", "i", "o", "n", "_", "n", "a", "m", "e">>

alert_volume == <<"a", "l", "e", "r", "t", "_", "v", "o", "l", "u", "m", "e">>

avg_mttr_hours == <<"a", "v", "g", "_", "m", "t", "t", "r", "_", "h", "o", "u", "r", "s">>

export_format == <<"e", "x", "p", "o", "r", "t", "_", "f", "o", "r", "m", "a", "t">>

generate_pdf == <<"g", "e", "n", "e", "r", "a", "t", "e", "_", "p", "d", "f">>

configuration == <<"c", "o", "n", "f", "i", "g", "u", "r", "a", "t", "i", "o", "n">>

\* Lines 872-904: the input keys (three of them: a text, a count, a real).
input_keys == <<solution_name, alert_volume, avg_mttr_hours>>

\* Lines 918-969: get_default_value.
get_default_value(key) ==
    IF key = solution_name THEN StrValue(<<"A", "I", "O", "P", "s">>)
    ELSE IF key = avg_mttr_hours THEN FloatValue(Zero)
    ELSE IntValue(0)

\* Lines 867-915: get_all_input_values.
get_all_input_values(session_state) ==
    [i \in DOMAIN input_keys |->
        <<input_keys[i],
          IF dict_has(session_state, input_keys[i])
          THEN dict_get(session_state, input_keys[i])
          ELSE get_default_value(input_keys[i])>>]

LowerCase == <<"a", "b", "c", "d", "e", "f", "g", "h", "i", "j", "k", "l", "m", "n", "o", "p", "q", "r", "s", "t", "u", "v", "w", "x", "y", "z">>

UpperCase == <<"A", "B", "C", "D", "E", "F", "G", "H", "I", "J", "K", "L", "M", "N", "O", "P", "Q", "R", "S", "T", "U", "V", "W", "X", "Y", "Z">>

IsLetter(c) == \E i \in DOMAIN LowerCase : c \in {LowerCase[i], UpperCase[i]}

upper(c) ==
    IF \E i \in DOMAIN LowerCase : LowerCase[i] = c
    THEN UpperCase[CHOOSE i \in DOMAIN LowerCase : LowerCase[i] = c]
    ELSE c

lower(c) ==
    IF \E i \in DOMAIN UpperCase : UpperCase[i] = c
    THEN LowerCase[CHOOSE i \in DOMAIN UpperCase : UpperCase[i] = c]
    ELSE c

\* Line 1031: key.replace('_', ' ').title().
replace_title(key) ==
    [i \in DOMAIN key |->
        IF key[i] = "_" THEN " "
        ELSE IF i = 1 \/ ~IsLetter(key[i - 1]) THEN upper(key[i])
        ELSE lower(key[i])]

\* Lines 980-1027 and 1031: descriptions.get(key, ...).
descriptions_get(key) ==
    IF key = solution_name THEN <<"C", "u", "s", "t", "o", "m", "e", "r", " ", "N", "a", "m", "e">>
    ELSE IF key = alert_volume THEN <<"T", "o", "t", "a", "l", " ", "I", "n", "f", "r", "a", "s", "t", "r", "u", "c", "t", "u", "r", "e", " ", "R", "e", "l", "a", "t", "e", "d", " ", "A", "l", "e", "r", "t", "s", " ", "p", "e", "r", " ", "Y", "e", "a", "r">>
    ELSE IF key = avg_mttr_hours THEN <<"A", "v", "e", "r", "a", "g", "e", " ", "M", "T", "T", "R", " ", "(", "h", "o", "u", "r", "s", ")">>
    ELSE replace_title(key)

\* csv.writer (lines 974, 977, 1032), dialect excel: a field holding the
\* delimiter, the quote or a line break is quoted, its quotes doubled.
needs_quoting(field) == \E i \in DOMAIN field : field[i] \in {",", "\"", "\r", "\n"}

RECURSIVE double_quotes(_)
double_quotes(field) ==
    IF field = <<>> THEN <<>>
    ELSE (IF Head(field) = "\"" THEN <<"\"", "\"">> ELSE <<Head(field)>>)
         \o double_quotes(Tail(field))

write_field(field) ==
    IF needs_quoting(field) THEN <<"\"">> \o double_quotes(field) \o <<"\"">> ELSE field

\* A cell is written as str(value), None as the empty text.
field_of(value) == IF value.type = "None" THEN <<>> ELSE str(value)

RECURSIVE join_fields(_)
join_fields(fields) ==
    IF fields = <<>> THEN <<>>
    ELSE IF Len(fields) = 1 THEN write_field(field_of(fields[1]))
    ELSE write_field(field_of(fields[1])) \o <<",">> \o join_fields(Tail(fields))

writerow(fields) == join_fields(fields) \o <<"\r", "\n">>

RECURSIVE write_rows(_)
write_rows(input_values) ==
    IF input_values = <<>> THEN <<>>
    ELSE writerow(<<StrValue(input_values[1][1]), input_values[1][2],
                    StrValue(descriptions_get(input_values[1][1]))>>)
         \o write_rows(Tail(input_values))

\* Lines 971-1035: export_to_csv.
export_to_csv(input_values) ==
    writerow(<<StrValue(Parameter), StrValue(ValueColumn), StrValue(Description)>>)
    \o write_rows(input_values)

\* csv.reader (line 1041), dialect excel, not strict: the state of the
\* reader between two characters.
ReaderStart == [mode |-> "START_RECORD", field |-> <<>>, row |-> <<>>, rows |-> <<>>, error |-> FALSE]

save_field(state, mode) ==
    [state EXCEPT !.row = Append(state.row, state.field), !.field = <<>>, !.mode = mode]

add_char(state, c, mode) == [state EXCEPT !.field = Append(state.field, c), !.mode = mode]

\* One character of a line.
process_char(state, c) ==
    IF state.error THEN state
    ELSE IF state.mode = "START_RECORD" /\ c \in {"\r", "\n"} THEN [state EXCEPT !.mode = "EAT_CRNL"]
    ELSE IF state.mode \in {"START_RECORD", "START_FIELD"}
         THEN IF c \in {"\r", "\n"} THEN save_field(state, "EAT_CRNL")
              ELSE IF c = "\"" THEN [state EXCEPT !.mode = "IN_QUOTED_FIELD"]
              ELSE IF c = "," THEN save_field(state, "START_FIELD")
              ELSE add_char(state, c, "IN_FIELD")
    ELSE IF state.mode = "IN_FIELD"
         THEN IF c \in {"\r", "\n"} THEN save_field(state, "EAT_CRNL")
              ELSE IF c = "," THEN save_field(state, "START_FIELD")
              ELSE add_char(state, c, "IN_FIELD")
    ELSE IF state.mode = "IN_QUOTED_FIELD"
         THEN IF c = "\"" THEN [state EXCEPT !.mode = "QUOTE_IN_QUOTED_FIELD"]
              ELSE add_char(state, c, "IN_QUOTED_FIELD")
    ELSE IF state.mode = "QUOTE_IN_QUOTED_FIELD"
         THEN IF c = "\"" THEN add_char(state, c, "IN_QUOTED_FIELD")
              ELSE IF c = "," THEN save_field(state, "START_FIELD")
              ELSE IF c \in {"\r", "\n"} THEN save_field(state, "EAT_CRNL")
              ELSE add_char(state, c, "IN_FIELD")
    ELSE IF c \in {"\r", "\n"} THEN state
    ELSE [state EXCEPT !.error = TRUE]

\* The end of a line: the row is complete unless a quoted field is open.
end_of_line(state) ==
    IF state.error \/ state.mode = "IN_QUOTED_FIELD" THEN state
    ELSE LET closed == IF state.mode \in {"START_RECORD", "EAT_CRNL"} THEN state
                       ELSE save_field(state, "START_RECORD")
         IN  [closed EXCEPT !.rows = Append(state.rows, closed.row), !.row = <<>>,
                            !.mode = "START_RECORD"]

\* The end of the text: a last line without a line break ends here, and an
\* open quoted field is closed.
end_of_text(text, state) ==
    LET last == IF text # <<>> /\ text[Len(text)] # "\n" THEN end_of_line(state) ELSE state
    IN  IF last.error \/ last.mode # "IN_QUOTED_FIELD" THEN last
        ELSE [last EXCEPT !.rows = Append(last.rows, Append(last.row, last.field)),
                          !.row = <<>>, !.field = <<>>, !.mode = "START_RECORD"]

\* One character and, after a line feed, the end of its line.
read_char(text, i, state) ==
    Assigned(process_char(state, text[i]),
             LAMBDA read : IF text[i] = "\n" THEN end_of_line(read) ELSE read)

\* The characters first..last in their order, the range halved at each call.
RECURSIVE read_chars(_, _, _, _)
read_chars(text, first, last, state) ==
    IF first > last THEN state
    ELSE IF first = last THEN read_char(text, first, state)
    ELSE Assigned(read_chars(text, first, (first + last) \div 2, state),
                  LAMBDA half : read_chars(text, (first + last) \div 2 + 1, last, half))

\* csv.reader over StringIO(csv_content): the rows, or a csv.Error.
csv_reader(csv_content) ==
    end_of_text(csv_content, read_chars(csv_content, 1, Len(csv_content), ReaderStart))

\* csv.DictReader, row[name]: the cell under the last column of that name,
\* None when the row is shorter; KeyError when no column has the name.
HasColumn(fieldnames, name) == \E i \in DOMAIN fieldnames : fieldnames[i] = name

row_get(fieldnames, row, name) ==
    LET i == CHOOSE i \in DOMAIN fieldnames :
                 fieldnames[i] = name /\ \A j \in DOMAIN fieldnames : fieldnames[j] = name => j <= i
    IN  IF i <= Len(row) THEN StrValue(row[i]) ELSE NoneValue

\* The rows DictReader yields: all but the first, the empty ones skipped.
RECURSIVE data_rows(_)
data_rows(rows) ==
    IF rows = <<>> THEN <<>>
    ELSE (IF Head(rows) = <<>> THEN <<>> ELSE <<Head(rows)>>) \o data_rows(Tail(rows))

\* Lines 1044-1058: the loop over the rows, building imported_values.
RECURSIVE collect_rows(_, _, _)
collect_rows(fieldnames, rows, imported_values) ==
    IF rows = <<>> THEN imported_values
    ELSE collect_rows(fieldnames, Tail(rows),
                      dict_set(imported_values,
                               row_get(fieldnames, Head(rows), Parameter),
                               convert_value(row_get(fieldnames, Head(rows), ValueColumn))))

\* Keys of the widgets instantiated before the import runs (lines 1989, 2026).
widget_ids_this_run == {generate_pdf, export_format}

\* st.session_state[key] = value, one key after the other (lines 1061-1062,
\* 1096-1097): a key of a widget already instantiated raises, and the keys
\* before it stay written.
RECURSIVE update_session_state(_, _, _)
update_session_state(imported_values, session_state, written) ==
    IF imported_values = <<>>
    THEN [ok |-> TRUE, count |-> written, session_state |-> session_state]
    ELSE IF str(Head(imported_values)[1]) \in widget_ids_this_run
    THEN [ok |-> FALSE, count |-> written, session_state |-> session_state]
    ELSE update_session_state(Tail(imported_values),
                              dict_set(session_state, str(Head(imported_values)[1]),
                                       Head(imported_values)[2]),
                              written + 1)

\* Lines 1037-1068: import_from_csv.
import_from_csv(csv_content, session_state) ==
    LET reader == csv_reader(csv_content)
        fieldnames == Head(reader.rows)
        rows == data_rows(Tail(reader.rows))
    IN  IF reader.error THEN [ok |-> FALSE, count |-> 0, session_state |-> session_state]
        ELSE IF reader.rows = <<>> \/ rows = <<>>
        THEN [ok |-> TRUE, count |-> 0, session_state |-> session_state]
        ELSE IF ~HasColumn(fieldnames, Parameter) \/ ~HasColumn(fieldnames, ValueColumn)
        THEN [ok |-> FALSE, count |-> 0, session_state |-> session_state]
        ELSE update_session_state(collect_rows(fieldnames, rows, <<>>), session_state, 0)

\* What json.loads makes of a file: an object, a number, or no value at all
\* when the text is not JSON.
DictValue(items) == Value("dict", 0, Zero, items)

Malformed == Value("malformed", 0, Zero, <<>>)

\* Lines 1070-1081: export_to_json, as the document json.loads reads back.
export_to_json(input_values) ==
    DictValue(<<<<<<"m", "e", "t", "a", "d", "a", "t", "a">>, DictValue(<<<<<<"v", "e", "r", "s", "i", "o", "n">>, StrValue(<<"2", ".", "3">>)>>>>)>>,
                <<configuration, DictValue(input_values)>>>>)

\* 'configuration' in data: a key of an object, an element of an array, and a
\* TypeError on a number.
contains_configuration(data) ==
    IF data.type = "dict" THEN dict_has(data.s, configuration)
    ELSE \E i \in DOMAIN data.s : data.s[i] = StrValue(configuration)

\* Lines 1083-1102: import_from_json.
import_from_json(data, session_state) ==
    LET imported_values ==
            IF data.type = "dict" /\ contains_configuration(data)
            THEN dict_get(data.s, configuration)
            ELSE data
        items == [i \in DOMAIN imported_values.s |->
                     <<StrValue(imported_values.s[i][1]), imported_values.s[i][2]>>]
    IN  IF data.type \notin {"dict", "list"} \/ imported_values.type # "dict"
        THEN [ok |-> FALSE, count |-> 0, session_state |-> session_state]
        ELSE update_session_state(items, session_state, 0)

(***************************************************************************)
(* 4.14 The export and import buttons (lines 2018-2082)                    *)
(*                                                                         *)
(* io.store is st.session_state over the keys of the codec; io.file is the *)
(* file in the uploader, io.exported the mapping an exported file holds,   *)
(* io.imports the outcome of the last import.                              *)
(***************************************************************************)
NoFile == [ext |-> "none", csv_content |-> <<>>, json_content |-> Malformed]

CsvFile(text) == [ext |-> "csv", csv_content |-> text, json_content |-> Malformed]

JsonFile(data) == [ext |-> "json", csv_content |-> <<>>, json_content |-> data]

\* The store after the first run: every input widget has written its value
\* (lines 2090, 2244-2248, 2333-2337).
WidgetValues ==
    <<<<solution_name, StrValue(<<"A", "C", "M", "E">>)>>, <<alert_volume, IntValue(0)>>,
      <<avg_mttr_hours, FloatValue(Zero)>>>>

\* What the user can enter in the three inputs.
InputChoices(key) ==
    IF key = solution_name THEN {StrValue(<<"A", "C", "M", "E">>), StrValue(<<"A", ",", " ", "\"", "B", "\"">>), StrValue(<<"4", "2">>)}
    ELSE IF key = alert_volume THEN {IntValue(0), IntValue(1200)}
    ELSE {FloatValue(Zero), FloatValue(Frac(1, 100000))}

\* Files written by hand: a key of a widget after a key of an input, no
\* Parameter column, a row without a Value cell, and a carriage return
\* inside an unquoted field.
UploadedCsv ==
    <<<<"P", "a", "r", "a", "m", "e", "t", "e", "r", ",", "V", "a", "l", "u", "e", "\r", "\n", "s", "o", "l", "u", "t", "i", "o", "n", "_", "n", "a", "m", "e", ",", "X", "\r", "\n", "e", "x", "p", "o", "r", "t", "_", "f", "o", "r", "m", "a", "t", ",", "J", "S", "O", "N", "\r", "\n">>,
     <<"N", "a", "m", "e", ",", "V", "a", "l", "u", "e", "\r", "\n", "s", "o", "l", "u", "t", "i", "o", "n", "_", "n", "a", "m", "e", ",", "X", "\r", "\n">>,
     <<"P", "a", "r", "a", "m", "e", "t", "e", "r", ",", "V", "a", "l", "u", "e", "\r", "\n", "a", "l", "e", "r", "t", "_", "v", "o", "l", "u", "m", "e", "\r", "\n">>,
     <<"P", "a", "r", "a", "m", "e", "t", "e", "r", ",", "V", "a", "l", "u", "e", "\r", "\n", "s", "o", "l", "u", "t", "i", "o", "n", "\r", "n", "a", "m", "e", ",", "X", "\r", "\n">>>>

\* JSON documents written by hand: text that is not JSON, a configuration
\* that is not an object, a bare object, and an object with the key of a
\* widget after the key of an input.
UploadedJson ==
    <<Malformed,
     DictValue(<<<<configuration, IntValue(5)>>>>),
     DictValue(<<<<alert_volume, IntValue(7)>>>>),
     DictValue(<<<<configuration,
                   DictValue(<<<<solution_name, StrValue(<<"X">>)>>,
                               <<generate_pdf, Value("bool", 1, Zero, <<>>)>>>>)>>>>)>>

Uploads ==
    [i \in DOMAIN UploadedCsv |-> CsvFile(UploadedCsv[i])]
    \o [i \in DOMAIN UploadedJson |-> JsonFile(UploadedJson[i])]

InitConfig ==
    /\ tp = tpIdle
    /\ ca = caIdle
    /\ PassIdle
    /\ heap = EmptyHeap
    /\ scn = scnIdle
    /\ hist = histIdle
    /\ mc = mcIdle
    /\ diag = diagIdle
    /\ io = [ioIdle EXCEPT !.store = WidgetValues, !.file = NoFile]

\* The user changes one input.
EditInput ==
    /\ \E i \in DOMAIN input_keys : \E value \in InputChoices(input_keys[i]) :
          /\ dict_get(io.store, input_keys[i]) # value
          /\ io' = [io EXCEPT !.store = dict_set(io.store, input_keys[i], value)]
    /\ UNCHANGED <<tp, ca, session, loc, pc, heap, scn, hist, mc, diag>>

\* Lines 2028-2046: "Generate Export File", the download put back in the
\* uploader.
GenerateExport ==
    /\ \E export_format_choice \in {"CSV", "JSON"} :
          LET current_values == get_all_input_values(io.store)
          IN  io' = [io EXCEPT !.exported = current_values,
                               !.origin = export_format_choice,
                               !.file = IF export_format_choice = "CSV"
                                        THEN CsvFile(export_to_csv(current_values))
                                        ELSE JsonFile(export_to_json(current_values))]
    /\ UNCHANGED <<tp, ca, session, loc, pc, heap, scn, hist, mc, diag>>

\* Lines 2052-2056: a file of the user's own is put in the uploader.
Upload ==
    /\ \E i \in DOMAIN Uploads : io' = [io EXCEPT !.file = Uploads[i], !.origin = "upload", !.exported = <<>>]
    /\ UNCHANGED <<tp, ca, session, loc, pc, heap, scn, hist, mc, diag>>

\* Lines 2058-2079: "Import Configuration"; turn tells one import from the
\* next.
ImportConfiguration ==
    /\ io.file.ext # "none"
    /\ LET outcome == IF io.file.ext = "csv"
                      THEN import_from_csv(io.file.csv_content, io.store)
                      ELSE import_from_json(io.file.json_content, io.store)
       IN  io' = [io EXCEPT !.store = outcome.session_state,
                            !.imports = <<[success |-> outcome.ok, count |-> outcome.count,
                                           turn |-> IF io.imports = <<>> THEN TRUE
                                                    ELSE ~io.imports[1].turn]>>]
    /\ UNCHANGED <<tp, ca, session, loc, pc, heap, scn, hist, mc, diag>>

NextConfig == EditInput \/ GenerateExport \/ Upload \/ ImportConfiguration

SpecConfig == InitConfig /\ [][NextConfig]_vars

\* A step of "Import Configuration".
Imports == io'.imports # io.imports

\* C22 (as stated): importing what export_to_csv wrote succeeds and leaves
\* the store holding, for every key of the exported mapping, the value the
\* mapping has for it.
C22_AsStated ==
    [][(Imports /\ io.origin = "CSV") =>
           /\ io'.imports[1].success
           /\ \A i \in DOMAIN io.exported :
                 /\ dict_has(io'.store, io.exported[i][1])
                 /\ dict_get(io'.store, io.exported[i][1]) = io.exported[i][2]]_vars

(***************************************************************************)
(* 4.15 Validation over repeated passes (lines 2454-2471, 2499-2506)       *)
(***************************************************************************)
\* Calendars of 705, 1880 and 3760 working hours, with and without costs.
RevalidationSessions ==
    {[DefaultSession EXCEPT !.hours_per_day = R(h), !.platform_cost = pl,
                            !.evaluation_years = 1, !.tool_savings = 120] :
        h \in {3, 8, 16}, pl \in {0, 120}}

InitRevalidation ==
    /\ tp = tpIdle
    /\ ca = caIdle
    /\ session \in RevalidationSessions
    /\ loc = NoLocals
    /\ pc = "validate"
    /\ AsideIdle

\* The end of a script run and the start of the next, from the top of the
\* script: the widgets take the values the user set, the other keys of the
\* store keep what the earlier passes left, and validate_inputs runs again.
RerunFromValidation ==
    /\ pc = "done"
    /\ hist.passes + 1 < MaxPasses
    /\ \E widgets \in RevalidationSessions :
          session' = [key \in DOMAIN session |->
                         IF key \in WidgetKeys THEN widgets[key] ELSE session[key]]
    /\ hist' = [passes |-> hist.passes + 1,
                done |-> hist.done \cup {[params |-> Params(session),
                                          validation |-> diag.validation]},
                last |-> Params(session)]
    /\ diag' = [diag EXCEPT !.validation = NoValidation]
    /\ loc' = NoLocals
    /\ pc' = "validate"
    /\ UNCHANGED <<tp, ca, heap, scn, mc, io>>

NextRevalidation ==
    \/ ValidateInputs
    \/ Next
    \/ RerunFromValidation

SpecRevalidation == InitRevalidation /\ [][NextRevalidation]_vars

Warned(text) ==
    \E i \in DOMAIN diag.validation.warnings : diag.validation.warnings[i].text = text

\* C23 (as stated): the warnings and errors of a pass are those of every
\* earlier pass with the same parameter mapping, and the working-hours
\* warnings are decided on the working hours of the current calendar inputs.
C23_AsStated ==
    diag.validation.done =>
        /\ \A earlier \in hist.done :
              earlier.params = Params(session) => earlier.validation = diag.validation
        /\ Warned("Working hours per FTE seems very low")
              <=> RLt(working_hours_per_fte_per_year(session), R(1000))
        /\ Warned("Working hours per FTE seems very high")
              <=> RLt(R(3000), working_hours_per_fte_per_year(session))

(***************************************************************************)
(* 4.16 The executive report (lines 1106-1188, 1985-2016)                  *)
(***************************************************************************)
\* Lines 1113-1138: the inputs the report reads, and the default of each.
ReportInputs ==
    [evaluation_years |-> 3, billing_start_month |-> 1, implementation_delay |-> 6,
     benefits_ramp_up |-> 3, discount_rate |-> 10,
     alert_volume |-> 0, incident_volume |-> 0, major_incident_volume |-> 0,
     alert_reduction_pct |-> 0, incident_reduction_pct |-> 0, mttr_improvement_pct |-> 0,
     hours_per_day |-> R(8), days_per_week |-> 5, weeks_per_year |-> 52,
     holiday_sick_days |-> 25, platform_cost |-> 0, services_cost |-> 0,
     tool_savings |-> 0, people_efficiency |-> 0, fte_avoidance |-> 0,
     sla_penalty |-> 0, revenue_growth |-> 0, capex_savings |-> 0, opex_savings |-> 0]

\* Lines 1140-1157: the computed values the report reads, each with default 0.
ReportComputed ==
    {"total_annual_benefits", "alert_reduction_savings", "incident_reduction_savings",
     "major_incident_savings", "alert_triage_savings", "incident_triage_savings",
     "equivalent_ftes_from_savings", "total_operational_savings_from_time_saved",
     "asset_discovery_savings"}

\* Lines 1164-1188: the scenario results made up when the store has none.
basic_scenario_results(annual_benefits, platform_cost, services_cost, evaluation_years) ==
    LET total_investment == platform_cost * evaluation_years + services_cost
        basic_npv == RSub(RMul(annual_benefits, R(evaluation_years)), R(total_investment))
        basic_roi == IF total_investment > 0 THEN RDiv(basic_npv, R(total_investment)) ELSE Zero
    IN  [Expected |-> [npv |-> basic_npv, roi |-> basic_roi,
                       payback_months |-> [na |-> FALSE, n |-> 12, unit |-> "months"]],
         Conservative |-> [npv |-> RMul(basic_npv, Frac(7, 10)),
                           roi |-> RMul(basic_roi, Frac(7, 10)),
                           payback_months |-> [na |-> FALSE, n |-> 18, unit |-> "months"]],
         Optimistic |-> [npv |-> RMul(basic_npv, Frac(12, 10)),
                         roi |-> RMul(basic_roi, Frac(12, 10)),
                         payback_months |-> [na |-> FALSE, n |-> 9, unit |-> "months"]]]

\* Lines 1112-1188: what generate_executive_pdf_report reads from the store
\* before it draws the pages.
generate_executive_pdf_report(session_state) ==
    LET inputs == [key \in DOMAIN ReportInputs |-> Get(session_state, key, ReportInputs[key])]
        computed == [key \in ReportComputed |-> Get(session_state, key, Zero)]
        from_state == "scenario_results" \in session_state.keys
    IN  [inputs |-> inputs,
         computed |-> computed,
         fallback |-> ~from_state,
         scenario_results |->
             IF from_state
             THEN [name \in DOMAIN session_state.scenario_results |->
                      [npv |-> session_state.scenario_results[name].npv,
                       roi |-> session_state.scenario_results[name].roi,
                       payback_months |-> session_state.scenario_results[name].payback_months]]
             ELSE basic_scenario_results(computed.total_annual_benefits, inputs.platform_cost,
                                         inputs.services_cost, inputs.evaluation_years)]

ReportSessions ==
    {[DefaultSession EXCEPT !.platform_cost = pl, !.tool_savings = ts, !.services_cost = 600,
                            !.evaluation_years = 1, !.discount_rate = 10] :
        pl \in {0, 120}, ts \in {120, 360}}

InitReport ==
    /\ tp = tpIdle
    /\ ca = caIdle
    /\ session \in ReportSessions
    /\ loc = NoLocals
    /\ pc = "costs"
    /\ AsideIdle

\* The end of a script run and the start of the next. The widgets take the
\* values the user set; hist.done keeps, for the pass that ended, its
\* parameter mapping and what a report would read of its results.
RunAgain(position) ==
    /\ pc = "done"
    /\ hist.passes + 1 < MaxPasses
    /\ \E widgets \in ReportSessions :
          session' = [key \in DOMAIN session |->
                         IF key \in WidgetKeys THEN widgets[key] ELSE session[key]]
    /\ hist' = [passes |-> hist.passes + 1,
                done |-> hist.done \cup {[params |-> Params(session),
                                          report |-> generate_executive_pdf_report(session)]},
                last |-> Params(session)]
    /\ io' = [io EXCEPT !.reports = <<>>]
    /\ loc' = NoLocals
    /\ pc' = position
    /\ UNCHANGED <<tp, ca, heap, scn, mc, diag>>

\* A run the user starts by changing inputs.
RerunOnInput == RunAgain("costs") /\ Params(session') # Params(session)

\* A run the user starts with "Generate PDF Executive Summary"; a field
\* edited just before takes its new value in the same run.
RerunOnClick == RunAgain("report")

\* Lines 1989-2016: the button handler, at the top of the script.
GeneratePdf ==
    /\ pc = "report"
    /\ io' = [io EXCEPT !.reports = <<generate_executive_pdf_report(session)>>]
    /\ pc' = "costs"
    /\ UNCHANGED <<tp, ca, session, loc, heap, scn, hist, mc, diag>>

NextReport ==
    \/ Next
    \/ RerunOnInput
    \/ RerunOnClick
    \/ GeneratePdf

SpecReport == InitReport /\ [][NextReport]_vars

\* C24 (as stated): what a report reads - inputs, computed values and
\* scenario results - is what one completed pass had as inputs and
\* published, and the made-up scenario results appear only when no pass has
\* published any.
C24_AsStated ==
    io.reports # <<>> =>
        /\ \E pass \in hist.done : pass.report = io.reports[1]
        /\ io.reports[1].fallback => hist.done = {}

\* C25 (as stated): with no manual discovery cycle or no asset management
\* FTE, calculate_asset_discovery_costs returns cost per cycle 0, total
\* discovery cost 0 and utilization 0, and the asset-discovery savings of the
\* pass are 0.
C25_AsStated ==
    (CostsAllocated /\ (session.manual_discovery_cycles_per_year = 0
                        \/ session.asset_management_ftes = 0)) =>
        /\ loc.discovery.cost_per_unit = Zero
        /\ loc.discovery.total_cost = Zero
        /\ loc.discovery.utilization = Zero
        /\ loc.asset_discovery_savings = Zero

(***************************************************************************)
(* 4.17 The benefits of a trial against the benefits of the pass           *)
(***************************************************************************)
\* Reduction percentages the first trial of a call samples as they are (100
\* is clamped back to 100, 0 has no spread), with and without triage and
\* discovery savings.
TrialSessions ==
    {[WithWorkload([DefaultSession EXCEPT !.evaluation_years = 1, !.discount_rate = 10,
                                          !.services_cost = 600, !.platform_cost = pl,
                                          !.tool_savings = 120], "all")
         EXCEPT !.alert_reduction_pct = 100, !.incident_reduction_pct = 0,
                !.mttr_improvement_pct = m, !.incident_triage_time_savings_pct = t,
                !.asset_discovery_automation_pct = a] :
        pl \in {0, 120}, m \in {0, 100}, t \in {0, 50}, a \in {0, 50}}

InitTrial ==
    /\ tp = tpIdle
    /\ ca = caIdle
    /\ session \in TrialSessions
    /\ loc = NoLocals
    /\ pc = "costs"
    /\ AsideIdle

NextTrial == Next \/ RunMonteCarlo

SpecTrial == InitTrial /\ [][NextTrial]_vars

\* The percentages the first trial of a call uses, after clamping.
FirstTrialPcts ==
    LET drawn == trial_draws(seed_42(mc.rng), session)
    IN  [i \in 1..3 |-> RMax(Zero, RMin(R(100), drawn.values[i]))]

SampledAsEntered ==
    FirstTrialPcts = <<R(session.alert_reduction_pct), R(session.incident_reduction_pct),
                       R(session.mttr_improvement_pct)>>

FirstTrial == trial_results(trial_draws(seed_42(mc.rng), session).values, session)

\* C26 (as stated): in a simulation call, a trial whose sampled percentages
\* equal the user's has total benefits equal to the total_annual_benefits of
\* the pass.
C26_AsStated ==
    (mc.runs # <<>> /\ ~mc.runs[1].raised /\ SampledAsEntered) =>
        FirstTrial.benefits = session.total_annual_benefits

AtMost(a, b) == RSub(b, a).n >= 0

Below(a, b) == RSub(b, a).n > 0

\* C28: with non-negative total annual benefits, platform cost, services cost
\* and discount rate, the three scenarios of a pass are ordered: in every
\* year the net cash flow of Conservative is at most that of Expected, which
\* is at most that of Optimistic; so are the NPVs; and the implementation
\* delays are ordered the other way round.
C28_ScenarioOrdering ==
    (/\ ScenariosComputed
     /\ RLe(Zero, loc.total_annual_benefits)
     /\ session.platform_cost >= 0 /\ session.services_cost >= 0
     /\ session.discount_rate >= 0) =>
        LET c == loc.scenario_results["Conservative"]
            e == loc.scenario_results["Expected"]
            o == loc.scenario_results["Optimistic"]
        IN  /\ \A year \in 1..session.evaluation_years :
                  /\ AtMost(c.cash_flows[year].net_cash_flow, e.cash_flows[year].net_cash_flow)
                  /\ AtMost(e.cash_flows[year].net_cash_flow, o.cash_flows[year].net_cash_flow)
            /\ AtMost(c.npv, e.npv)
            /\ AtMost(e.npv, o.npv)
            /\ o.impl_delay <= e.impl_delay
            /\ e.impl_delay <= c.impl_delay

C28_Witness ==
    /\ ScenariosComputed
    /\ session.implementation_delay = 10 /\ session.benefits_ramp_up = 2
    /\ session.evaluation_years = 2 /\ session.discount_rate = 10
    /\ RLt(Zero, loc.total_annual_benefits)
    /\ loc.scenario_results["Optimistic"].impl_delay = 8
    /\ loc.scenario_results["Conservative"].impl_delay = 13
    /\ Below(loc.scenario_results["Conservative"].cash_flows[2].net_cash_flow,
             loc.scenario_results["Expected"].cash_flows[2].net_cash_flow)
    /\ Below(loc.scenario_results["Expected"].cash_flows[1].net_cash_flow,
             loc.scenario_results["Optimistic"].cash_flows[1].net_cash_flow)
    /\ Below(loc.scenario_results["Conservative"].npv, loc.scenario_results["Expected"].npv)
    /\ Below(loc.scenario_results["Expected"].npv, loc.scenario_results["Optimistic"].npv)

FileHolds ==
    IF io.file.ext = "csv" THEN import_from_csv(io.file.csv_content, <<>>).session_state
    ELSE import_from_json(io.file.json_content, <<>>).session_state

\* C30 (as stated): an import that returns (False, message) leaves every key
\* of the store as it was; an import that returns (True, message) leaves the
\* store holding the file's value for every key of the file and the value it
\* had for every other key.
C30_AsStated ==
    [][Imports =>
           IF ~io'.imports[1].success
           THEN io'.store = io.store
           ELSE /\ dict_keys(io'.store) = dict_keys(io.store) \cup dict_keys(FileHolds)
                /\ \A key \in dict_keys(io'.store) :
                      dict_get(io'.store, key) =
                          IF dict_has(FileHolds, key) THEN dict_get(FileHolds, key)
                          ELSE dict_get(io.store, key)]_vars

====
